---- MODULE Spec2Model ----
(***************************************************************************)
(* A model of portgate: the ConfigStore (config.go), the Scanner           *)
(* (scanner), the Hub and its WebSocket subscribers (hub / dashboard       *)
(* handler).  Port numbers are scaled down to 1..MaxPort and channel       *)
(* capacities to small bounds; everything else follows the Go source.      *)
(***************************************************************************)
EXTENDS Integers, Sequences, FiniteSets, TLC

(***************************************************************************)
(* Bounds of the model                                                     *)
(***************************************************************************)
\* scanned port numbers are 1..MaxPort (the program's are 1..65535)
MaxPort == 3
\* the longest stored scan-range list the model explores
MaxRanges == 3
\* how many Save calls may fail in one behaviour
MaxSaveFails == 1
\* how many scan cycles Scanner.Run starts in one behaviour
MaxCycles == 3
\* how many times a listener appears or disappears in one behaviour
MaxEnvChanges == 1
\* capacity of a subscriber's send channel (the program's is 256)
SendCap == 2
\* capacity of the Hub's broadcast channel (the program's is 256)
BroadcastCap == 1
\* how many mapping requests the dashboard API serves in one behaviour
MaxApiCalls == 1
\* how many /api/mappings requests SpecApi serves
MaxRequests == 3
\* how many bytes each end of a tunnel sends
MaxBytes == 3

Ports == 1..MaxPort

(***************************************************************************)
(* Data types (types.go)                                                   *)
(***************************************************************************)
Domains == {"myapp", "api", "portgate"}
TargetPorts == {3000, 4000}

\* DomainMapping (CreatedAt is opaque to every ConfigStore method and is left out)
DomainMapping(d, p, sys) == [Domain |-> d, TargetPort |-> p, System |-> sys]

\* ScanRange
ScanRange(s, e) == [Start |-> s, End |-> e]

\* ManualPort (Path is opaque to the scanner and is left out)
ManualPort(p, n) == [Port |-> p, Name |-> n, Path |-> ""]
ManualPortAt(p, n, path) == [Port |-> p, Name |-> n, Path |-> path]
Names == {"", "db"}

\* DiscoveredPort (Protocol is always "tcp"; LastSeen is the cycle's start time,
\* modelled by the number of the cycle)
DiscoveredPort(p, h, now, src) ==
    [Port |-> p, Healthy |-> h, LastSeen |-> now, Source |-> src,
     ServiceName |-> "", Title |-> "", ExePath |-> ""]

\* what GET / on a port gives: a connection error, or a response whose body
\* cannot be read, or a response with a title tag and a Server header
\* (each possibly empty)
\* (match: titleRe matched; title: the match after TrimSpace; server: the header)
HttpResult(e, re, m, t, sv) ==
    [err |-> e, readErr |-> re, match |-> m, title |-> t, server |-> sv]
HttpFail == HttpResult(TRUE, FALSE, FALSE, "", "")
HttpResults ==
    {HttpFail, HttpResult(FALSE, TRUE, FALSE, "", "")}
        \cup {HttpResult(FALSE, FALSE, FALSE, "", sv) : sv \in {"", "S"}}
        \cup {HttpResult(FALSE, FALSE, TRUE, t, sv) : t \in {"", "T"}, sv \in {"", "S"}}

\* the subscribers and the callers of Hub.broadcastUpdate
Clients == {"c1", "c2"}
Callers == {"scanner", "api"}

\* Config: the zero value built by NewConfigStore when no file exists
EmptyConfig == [Mappings |-> <<>>, ScanRanges |-> <<>>, ManualPorts |-> <<>>]

\* DefaultScanRanges, scaled: two disjoint ranges that leave MaxPort uncovered
DefaultScanRanges == <<ScanRange(1, 1), ScanRange(2, 2)>>

\* the ranges a caller may pass: the API and the CLI only let 1 <= start <= end through
ValidRanges == {r \in {ScanRange(s, e) : s \in Ports, e \in Ports} : r.Start <= r.End}

VARIABLES
    cfg,        \* ConfigStore.cfg, the in-memory configuration
    disk,       \* the content of the live config file
    saveFails,  \* how many Save calls have failed so far
    expected,   \* ghost: domain -> the mapping the last AddMapping/RemoveMapping left
    lastOp      \* ghost: the ConfigStore call that ran last (op, its arguments, whether
                \* Save failed, whether the key was already stored; for AddMapping n2 is
                \* the port the domain had before)

VARIABLES
    open,       \* environment: the ports with an accepting listener
    http,       \* environment: port -> what GET / on it gives
    envChanges, \* how many times open has changed
    scPc,       \* Scanner.Run: "scan", "manual", "deliver", "wait", "stop", "done"
    scPorts,    \* scan(): the local list ports
    scanned,    \* scan(): the local map scannedPorts, as a set
    cycle,      \* the number of scans started (the value of now)
    cancelled,  \* ctx.Done() has fired
    probe,      \* ghost: the listeners seen by the range sweep and by the manual loop
    steady,     \* ghost: the ports open ever since the current cycle began
    results,    \* ghost: the list each completed scan() returned
    setLog      \* ghost: the argument of each SetPorts call

VARIABLES
    ports,      \* Hub.ports
    clients,    \* Hub.clients
    send,       \* WSClient.send of each subscriber: the queued messages
    closed,     \* WSClient.send of each subscriber has been closed
    broadcast,  \* Hub.broadcast: the queued messages
    buPc,       \* each broadcastUpdate caller: "idle", "ports", "mappings", "enqueue"
    buMsg,      \* each broadcastUpdate caller: the message being built
    nextSeq,    \* ghost: how many messages were put on Hub.broadcast
    apiCalls    \* how many mapping requests the API has served

VARIABLES
    wsPc,       \* the /ws handler of each subscriber: "idle", "register", "build", "send", "done"
    wsMsg,      \* the /ws handler: the initial-state message it built
    rdPc,       \* readPump: "off", "reading", "unregister", "done"
    wrPc,       \* writePump: "off", "running", "done"
    recv,       \* ghost: the messages writePump wrote to the connection, in order
    firstEnq,   \* ghost: the kind of the first message put on each send channel
    panicked    \* a goroutine sent on a closed channel, or closed one again

VARIABLES
    apiReq,     \* ghost: the last API request (method, raw domain, port; for
                \* /api/ports and /api/scan-ranges: method, path, the decoded body)
    apiReply    \* the status code of the answer to that request (0: none yet)

VARIABLES
    pxSuffix,   \* what hub.config.DomainSuffix() returns
    pxReq,      \* the request the proxy handler serves (Host, Connection, Upgrade)
    pxPc,       \* the proxy handler: "idle", "dashboard", "buffered", "dial",
                \* "hijack", "write", "flush", "relay", "done"
    pxSub,      \* ProxyHandler: the local subdomain
    pxPort,     \* ProxyHandler: the local port (LookupPort's answer)
    pxReply,    \* the status code the proxy itself answered with (0: none)
    pxFwd,      \* the request the ReverseProxy sent on (address, Host header), and
                \* whether the answer of the backend was relayed to the client

    clientConn, \* the client's connection: "server" (held by the HTTP server),
                \* "hijacked" (taken over by handleWebSocket), "closed"
    backendConn,\* backendConn of handleWebSocket: "none", "open", "closed"
    cPeer,      \* the client: "up", or "closed" (it sends nothing more)
    bPeer,      \* the backend: "up", or "closed"
    cSent,      \* ghost: the bytes the client has sent after its request, in order
    cWire,      \* client bytes that nobody has read yet
    cBuf,       \* clientBuf: client bytes the HTTP server had read ahead at Hijack
    upBuf,      \* io.Copy(backendConn, clientConn): bytes read and not yet written
    upPc,       \* that goroutine: "off", "read", "write", "close", "done"
    toBackend,  \* ghost: everything written to backendConn, in order
    bSent,      \* ghost: the bytes the backend has sent, in order
    bWire,      \* backend bytes that nobody has read yet
    downBuf,    \* io.Copy(clientConn, backendConn): bytes read and not yet written
    downPc,     \* that goroutine: "off", "read", "write", "close", "done"
    toClient,   \* ghost: everything written to clientConn after Hijack, in order
    firstDone   \* ghost: the direction whose io.Copy returned first ("" : none yet)

VARIABLES
    saver,      \* each concurrent caller of a ConfigStore mutation: where it is in
                \* the call (pc), the call (op), the bytes Save marshalled (data),
                \* the inode of the file it has open (fd), how many chunks it has
                \* written (off), what the call returned (ret)
    fs          \* the config directory: the files' contents by inode (inodes),
                \* and the inode the names path+".tmp" (tmp) and path (live)
                \* refer to (0: no such file)

cfgVars == <<cfg, disk, saveFails, expected, lastOp>>
envVars == <<open, http, envChanges>>
scanVars == <<scPc, scPorts, scanned, cycle, cancelled, probe, steady, results, setLog>>
hubVars == <<ports, clients, send, closed, broadcast, buPc, buMsg, nextSeq, apiCalls>>
wsVars == <<wsPc, wsMsg, rdPc, wrPc, recv, firstEnq, panicked>>
apiVars == <<apiReq, apiReply>>
routeVars == <<pxSuffix, pxReq, pxPc, pxSub, pxPort, pxReply, pxFwd>>
connVars == <<clientConn, backendConn, cPeer, bPeer>>
upVars == <<cSent, cWire, cBuf, upBuf, upPc, toBackend>>
downVars == <<bSent, bWire, downBuf, downPc, toClient>>
proxyVars == <<routeVars, connVars, upVars, downVars, firstDone>>
VARIABLES
    got         \* the slice a caller of Hub.GetPorts holds: its elements (elems)
                \* and whether it shares its backing array with h.ports (shared);
                \* held says whether the caller has one

VARIABLES
    res         \* one call of the socket-table search of findExeByPort: the
                \* variant (os), the table's lines (rows), the port asked for
                \* (port), whether it has run (pc) and what it returned (out)

VARIABLES
    cli         \* one run of the portgate command: the arguments after the
                \* program's name (args), whether main has run (pc), the
                \* command function it called (ran), the goroutines and
                \* servers that function started (started), the exit status

saveVars == <<saver, fs>>
readVars == <<got>>
resVars == <<res>>
cliVars == <<cli>>
vars == <<cfgVars, envVars, scanVars, hubVars, wsVars, apiVars, proxyVars, saveVars, readVars, resVars, cliVars>>

NoMapping == DomainMapping("", 0, FALSE)
NoOp == [op |-> "none", dom |-> "", n1 |-> 0, n2 |-> 0, err |-> FALSE, dup |-> FALSE]
Op(o, d, a, b, e, u) == [op |-> o, dom |-> d, n1 |-> a, n2 |-> b, err |-> e, dup |-> u]

SeqToSet(s) == {s[i] : i \in 1..Len(s)}

(***************************************************************************)
(* ConfigStore (config.go)                                                 *)
(***************************************************************************)
SaveOutcomes == {"ok", "fail"}

\* a plausible slip: the live file is written whatever the outcome
SaveInPlace(c, d, outcome) == c

\* Save: marshal, MkdirAll, WriteFile(tmp), Rename(tmp, path).  The live file
\* changes only when the rename succeeds.
Save(c, d, outcome) == IF outcome = "ok" THEN c ELSE d

\* a Save call with outcome o is possible: failures are capped by MaxSaveFails
CanSave(o) == o = "ok" \/ saveFails < MaxSaveFails

\* Mappings: a copy of cfg.Mappings
Mappings == cfg.Mappings

\* the filter loop of AddMapping / RemoveMapping: keep the other domains, in order
FilterDomain(ms, d) == SelectSeq(ms, LAMBDA e : e.Domain # d)

\* a plausible slip: an existing entry is not removed before the append
AddMappingKeepOld(ms, m) == Append(ms, m)

\* AddMapping, in memory: drop the domain's entries, append m
AddMappingTo(ms, m) == Append(FilterDomain(ms, m.Domain), m)

RemoveMappingFrom(ms, d) == FilterDomain(ms, d)

\* a plausible slip: the lookup answers with the first entry, whatever its domain
LookupPortInFirst(ms, d) == IF ms = <<>> THEN 0 ELSE Head(ms).TargetPort

\* LookupPort: the first entry of the domain, or 0
RECURSIVE LookupPortIn(_, _)
LookupPortIn(ms, d) ==
    IF ms = <<>> THEN 0
    ELSE IF Head(ms).Domain = d THEN Head(ms).TargetPort
    ELSE LookupPortIn(Tail(ms), d)

LookupPort(d) == LookupPortIn(cfg.Mappings, d)

AddMapping(m) ==
    \E o \in SaveOutcomes :
        /\ CanSave(o)
        /\ cfg' = [cfg EXCEPT !.Mappings = AddMappingTo(cfg.Mappings, m)]
        /\ disk' = Save(cfg', disk, o)
        /\ saveFails' = IF o = "ok" THEN saveFails ELSE saveFails + 1
        /\ expected' = [expected EXCEPT ![m.Domain] = m]
        /\ lastOp' = Op("AddMapping", m.Domain, m.TargetPort, LookupPort(m.Domain),
                        o # "ok", LookupPort(m.Domain) # 0)

RemoveMapping(d) ==
    \E o \in SaveOutcomes :
        /\ CanSave(o)
        /\ cfg' = [cfg EXCEPT !.Mappings = RemoveMappingFrom(cfg.Mappings, d)]
        /\ disk' = Save(cfg', disk, o)
        /\ saveFails' = IF o = "ok" THEN saveFails ELSE saveFails + 1
        /\ expected' = [expected EXCEPT ![d] = NoMapping]
        /\ lastOp' = Op("RemoveMapping", d, 0, 0, o # "ok", FALSE)

\* ScanRanges: the stored ranges, or the defaults when none is stored
ScanRangesOf(c) == IF Len(c.ScanRanges) = 0 THEN DefaultScanRanges ELSE c.ScanRanges
ScanRanges == ScanRangesOf(cfg)

\* "Initialize from defaults if empty", the first step of Add/RemoveScanRange
InitFromDefaults(rs) == IF Len(rs) = 0 THEN DefaultScanRanges ELSE rs

\* a plausible slip: the duplicate test compares both fields with sr.Start
RangeStoredTypo(rs, sr) == \E i \in 1..Len(rs) : rs[i].Start = sr.Start /\ rs[i].End = sr.Start

\* the duplicate test of AddScanRange: same start and same end
RangeStored(rs, sr) == \E i \in 1..Len(rs) : rs[i].Start = sr.Start /\ rs[i].End = sr.End

AddScanRange(sr) ==
    LET rs == InitFromDefaults(cfg.ScanRanges) IN
    IF RangeStored(rs, sr)
    THEN \* return nil without Save; the copy of the defaults stays in memory
         /\ cfg' = [cfg EXCEPT !.ScanRanges = rs]
         /\ lastOp' = Op("AddScanRange", "", sr.Start, sr.End, FALSE, TRUE)
         /\ UNCHANGED <<disk, saveFails, expected>>
    ELSE \E o \in SaveOutcomes :
         /\ CanSave(o)
         /\ Len(rs) < MaxRanges
         /\ cfg' = [cfg EXCEPT !.ScanRanges = Append(rs, sr)]
         /\ disk' = Save(cfg', disk, o)
         /\ saveFails' = IF o = "ok" THEN saveFails ELSE saveFails + 1
         /\ lastOp' = Op("AddScanRange", "", sr.Start, sr.End, o # "ok", FALSE)
         /\ UNCHANGED expected

RemoveScanRange(sr) ==
    LET rs == InitFromDefaults(cfg.ScanRanges) IN
    \E o \in SaveOutcomes :
        /\ CanSave(o)
        /\ cfg' = [cfg EXCEPT !.ScanRanges =
                      SelectSeq(rs, LAMBDA e : e.Start # sr.Start \/ e.End # sr.End)]
        /\ disk' = Save(cfg', disk, o)
        /\ saveFails' = IF o = "ok" THEN saveFails ELSE saveFails + 1
        /\ lastOp' = Op("RemoveScanRange", "", sr.Start, sr.End, o # "ok", FALSE)
        /\ UNCHANGED expected

\* ManualPorts: a copy of cfg.ManualPorts
ManualPorts == cfg.ManualPorts

\* a plausible slip: mp is appended without dropping the port's old entry
AddManualPortAppend(mps, mp) == Append(mps, mp)

\* AddManualPort, in memory: drop the port's entries, append mp
AddManualPortTo(mps, mp) == Append(SelectSeq(mps, LAMBDA e : e.Port # mp.Port), mp)

\* RemoveManualPort, in memory
RemoveManualPortFrom(mps, port) == SelectSeq(mps, LAMBDA e : e.Port # port)

\* the port has an entry in the list
PortStored(mps, port) == \E i \in 1..Len(mps) : mps[i].Port = port

AddManualPort(mp) ==
    \E o \in SaveOutcomes :
        /\ CanSave(o)
        /\ cfg' = [cfg EXCEPT !.ManualPorts = AddManualPortTo(cfg.ManualPorts, mp)]
        /\ disk' = Save(cfg', disk, o)
        /\ saveFails' = IF o = "ok" THEN saveFails ELSE saveFails + 1
        /\ lastOp' = [op |-> "AddManualPort", dom |-> mp.Name, n1 |-> mp.Port, n2 |-> 0,
                       err |-> o # "ok", dup |-> PortStored(cfg.ManualPorts, mp.Port),
                       path |-> mp.Path]
        /\ UNCHANGED expected

RemoveManualPort(port) ==
    \E o \in SaveOutcomes :
        /\ CanSave(o)
        /\ cfg' = [cfg EXCEPT !.ManualPorts = RemoveManualPortFrom(cfg.ManualPorts, port)]
        /\ disk' = Save(cfg', disk, o)
        /\ saveFails' = IF o = "ok" THEN saveFails ELSE saveFails + 1
        /\ lastOp' = Op("RemoveManualPort", "", port, 0, o # "ok",
                        PortStored(cfg.ManualPorts, port))
        /\ UNCHANGED expected

(***************************************************************************)
(* ConfigStore under concurrent callers: a mutation and its Save, step by  *)
(* step.  A file is a sequence of chunks; a serialized configuration is    *)
(* written as SaveChunks chunks.                                           *)
(***************************************************************************)
Savers == {"a", "b"}

\* json.MarshalIndent(cs.cfg) is written in two chunks
SaveChunks == 2
Chunk(c, k) == [cfg |-> c, part |-> k]
Hole == [cfg |-> EmptyConfig, part |-> 0]
Serialized(c) == [k \in 1..SaveChunks |-> Chunk(c, k)]

\* the calls a caller may make
MutationCalls ==
    { [name |-> "AddMapping", mapping |-> DomainMapping("api", 3000, FALSE)],
      [name |-> "RemoveMapping", domain |-> "api"],
      [name |-> "AddManualPort", mp |-> ManualPort(1, "db")],
      [name |-> "RemoveManualPort", port |-> 1] }

\* the in-memory part of a mutation, done under cs.mu.Lock()
Mutated(c, call) ==
    CASE call.name = "AddMapping" ->
            [c EXCEPT !.Mappings = AddMappingTo(c.Mappings, call.mapping)]
      [] call.name = "RemoveMapping" ->
            [c EXCEPT !.Mappings = RemoveMappingFrom(c.Mappings, call.domain)]
      [] call.name = "AddManualPort" ->
            [c EXCEPT !.ManualPorts = AddManualPortTo(c.ManualPorts, call.mp)]
      [] OTHER ->
            [c EXCEPT !.ManualPorts = RemoveManualPortFrom(c.ManualPorts, call.port)]

NoCall == [name |-> "none"]
SaverIdle == [pc |-> "idle", op |-> NoCall, data |-> EmptyConfig, fd |-> 0, off |-> 0, ret |-> ""]

\* the mutation returns err (a failure of the file system; such failures
\* are capped by MaxSaveFails) or nil
Returned(sv, r) == [sv EXCEPT !.pc = "done", !.ret = r]

SaveFrame == UNCHANGED <<disk, expected, lastOp>>
SaveOthers == UNCHANGED <<envVars, scanVars, hubVars, wsVars, apiVars, proxyVars, readVars, resVars, cliVars>>

\* cs.mu.Lock(); change cs.cfg; cs.mu.Unlock()
SaveMutate(s, call) ==
    /\ saver[s].pc = "idle"
    /\ cfg' = Mutated(cfg, call)
    /\ saver' = [saver EXCEPT ![s].pc = "marshal", ![s].op = call]
    /\ UNCHANGED <<fs, saveFails>>
    /\ SaveFrame /\ SaveOthers

\* Save: cs.mu.RLock(); data := json.MarshalIndent(cs.cfg); cs.mu.RUnlock()
SaveMarshal(s) ==
    /\ saver[s].pc = "marshal"
    /\ saver' = [saver EXCEPT ![s].pc = "mkdir", ![s].data = cfg]
    /\ UNCHANGED <<cfg, fs, saveFails>>
    /\ SaveFrame /\ SaveOthers

\* Save: os.MkdirAll(dir, 0755)
SaveMkdir(s) ==
    /\ saver[s].pc = "mkdir"
    /\ \/ /\ saver' = [saver EXCEPT ![s].pc = "open"]
          /\ UNCHANGED saveFails
       \/ /\ saveFails < MaxSaveFails
          /\ saveFails' = saveFails + 1
          /\ saver' = [saver EXCEPT ![s] = Returned(@, "err")]
    /\ UNCHANGED <<cfg, fs>>
    /\ SaveFrame /\ SaveOthers

\* os.WriteFile(tmp, ...), the open with O_WRONLY|O_CREATE|O_TRUNC: the file
\* named path+".tmp" is emptied if it exists and created if not
OpenTrunc(f) ==
    IF f.tmp # 0
    THEN [f EXCEPT !.inodes[f.tmp] = <<>>]
    ELSE [f EXCEPT !.inodes = Append(f.inodes, <<>>), !.tmp = Len(f.inodes) + 1]

SaveOpen(s) ==
    /\ saver[s].pc = "open"
    /\ \/ /\ fs' = OpenTrunc(fs)
          /\ saver' = [saver EXCEPT ![s].pc = "write", ![s].fd = fs'.tmp, ![s].off = 0]
          /\ UNCHANGED saveFails
       \/ /\ saveFails < MaxSaveFails
          /\ saveFails' = saveFails + 1
          /\ saver' = [saver EXCEPT ![s] = Returned(@, "err")]
          /\ UNCHANGED fs
    /\ UNCHANGED cfg
    /\ SaveFrame /\ SaveOthers

\* a write of chunk ch at chunk offset off of a file with content q
WriteAt(q, off, ch) ==
    [k \in 1..(IF Len(q) > off THEN Len(q) ELSE off + 1) |->
        IF k = off + 1 THEN ch ELSE IF k <= Len(q) THEN q[k] ELSE Hole]

\* os.WriteFile(tmp, ...), the write: the next chunk goes to the open file
\* at this caller's offset, or the write fails and Save returns the error
SaveWrite(s) ==
    /\ saver[s].pc = "write"
    /\ \/ /\ fs' = [fs EXCEPT !.inodes[saver[s].fd] =
                        WriteAt(@, saver[s].off, Chunk(saver[s].data, saver[s].off + 1))]
          /\ saver' = [saver EXCEPT ![s].off = @ + 1,
                                    ![s].pc = IF saver[s].off + 1 = SaveChunks
                                              THEN "rename" ELSE "write"]
          /\ UNCHANGED saveFails
       \/ /\ saveFails < MaxSaveFails
          /\ saveFails' = saveFails + 1
          /\ saver' = [saver EXCEPT ![s] = Returned(@, "err")]
          /\ UNCHANGED fs
    /\ UNCHANGED cfg
    /\ SaveFrame /\ SaveOthers

\* os.Rename(tmp, cs.path): the name path takes the file path+".tmp" names,
\* in one step; it fails when no such file exists, or for a cause of its own
SaveRename(s) ==
    /\ saver[s].pc = "rename"
    /\ \/ /\ fs.tmp # 0
          /\ fs' = [fs EXCEPT !.live = fs.tmp, !.tmp = 0]
          /\ saver' = [saver EXCEPT ![s] = Returned(@, "nil")]
          /\ UNCHANGED saveFails
       \/ /\ fs.tmp = 0
          /\ saver' = [saver EXCEPT ![s] = Returned(@, "err")]
          /\ UNCHANGED <<fs, saveFails>>
       \/ /\ fs.tmp # 0
          /\ saveFails < MaxSaveFails
          /\ saveFails' = saveFails + 1
          /\ saver' = [saver EXCEPT ![s] = Returned(@, "err")]
          /\ UNCHANGED fs
    /\ UNCHANGED cfg
    /\ SaveFrame /\ SaveOthers

(***************************************************************************)
(* findExeByPort (process_unix.go, process_windows.go): the search of the  *)
(* socket table.  A text is a sequence of characters, a table a sequence   *)
(* of lines.                                                               *)
(***************************************************************************)
Sp == " "
Cr == "CR"
WhiteSpace == {Sp, Cr}

DecDigits == <<"0", "1", "2", "3", "4", "5", "6", "7", "8", "9">>
HexUpper == DecDigits \o <<"A", "B", "C", "D", "E", "F">>
HexLower == DecDigits \o <<"a", "b", "c", "d", "e", "f">>

\* the place of character ch in the alphabet a, or 0
IndexOf(a, ch) == IF \E i \in 1..Len(a) : a[i] = ch
                  THEN CHOOSE i \in 1..Len(a) : a[i] = ch ELSE 0

RECURSIVE Cat(_)
Cat(parts) == IF parts = <<>> THEN <<>> ELSE Head(parts) \o Cat(Tail(parts))

\* fmt.Sprintf("%d", n) for n >= 0
RECURSIVE Itoa(_)
Itoa(n) == IF n < 10 THEN <<DecDigits[n + 1]>>
           ELSE Append(Itoa(n \div 10), DecDigits[(n % 10) + 1])

\* strconv.Atoi on a text without sign: the number, or an error for an empty
\* text or a character that is not a digit
RECURSIVE AtoiFrom(_, _)
AtoiFrom(t, acc) ==
    IF t = <<>> THEN [ok |-> TRUE, n |-> acc]
    ELSE IF IndexOf(DecDigits, Head(t)) = 0 THEN [ok |-> FALSE, n |-> 0]
    ELSE AtoiFrom(Tail(t), acc * 10 + IndexOf(DecDigits, Head(t)) - 1)

Atoi(t) == IF t = <<>> THEN [ok |-> FALSE, n |-> 0] ELSE AtoiFrom(t, 0)

\* strings.Contains
Contains(t, sub) ==
    \E i \in 0..(Len(t) - Len(sub)) : SubSeq(t, i + 1, i + Len(sub)) = sub

\* strings.TrimSpace on a line: blanks and the carriage return go
RECURSIVE TrimLeftLine(_)
TrimLeftLine(t) == IF t # <<>> /\ Head(t) \in WhiteSpace THEN TrimLeftLine(Tail(t)) ELSE t

RECURSIVE TrimRightLine(_)
TrimRightLine(t) == IF t # <<>> /\ t[Len(t)] \in WhiteSpace
                THEN TrimRightLine(SubSeq(t, 1, Len(t) - 1)) ELSE t

TrimSpaceLine(t) == TrimRightLine(TrimLeftLine(t))

\* strings.Fields: the maximal runs of characters that are not white space;
\* cur is the run being read
RECURSIVE FieldsFrom(_, _)
FieldsFrom(t, cur) ==
    IF t = <<>> THEN (IF cur = <<>> THEN <<>> ELSE <<cur>>)
    ELSE IF Head(t) \in WhiteSpace
    THEN (IF cur = <<>> THEN <<>> ELSE <<cur>>) \o FieldsFrom(Tail(t), <<>>)
    ELSE FieldsFrom(Tail(t), Append(cur, Head(t)))

Fields(t) == FieldsFrom(t, <<>>)

\* strings.Split(t, ":"): the pieces between the colons, empty ones included
RECURSIVE SplitFrom(_, _)
SplitFrom(t, cur) ==
    IF t = <<>> THEN <<cur>>
    ELSE IF Head(t) = ":" THEN <<cur>> \o SplitFrom(Tail(t), <<>>)
    ELSE SplitFrom(Tail(t), Append(cur, Head(t)))

Split(t) == SplitFrom(t, <<>>)

\* strings.SplitN(t, ":", 2): cut at the first colon only
SplitN2(t) ==
    IF \E i \in 1..Len(t) : t[i] = ":"
    THEN LET i == CHOOSE k \in 1..Len(t) : t[k] = ":" /\ \A j \in 1..(k - 1) : t[j] # ":"
         IN  <<SubSeq(t, 1, i - 1), SubSeq(t, i + 1, Len(t))>>
    ELSE <<t>>

\* one hex digit, either case, or -1
HexVal(ch) ==
    IF IndexOf(HexUpper, ch) # 0 THEN IndexOf(HexUpper, ch) - 1
    ELSE IF IndexOf(HexLower, ch) # 0 THEN IndexOf(HexLower, ch) - 1
    ELSE -1

\* hex.DecodeString: two digits a byte; an odd length or a character that is
\* not a hex digit is an error
RECURSIVE HexBytes(_)
HexBytes(t) == IF t = <<>> THEN <<>>
               ELSE <<HexVal(t[1]) * 16 + HexVal(t[2])>> \o HexBytes(SubSeq(t, 3, Len(t)))

HexDecode(t) ==
    IF Len(t) % 2 = 1 \/ \E i \in 1..Len(t) : HexVal(t[i]) = -1
    THEN [ok |-> FALSE, bytes |-> <<>>]
    ELSE [ok |-> TRUE, bytes |-> HexBytes(t)]

\* a plausible slip: the two bytes are taken in host (little-endian) order
LocalPortSwapped(b) == b[2] * 256 + b[1]

\* localPort := int(portBytes[0])<<8 | int(portBytes[1])
LocalPort(b) == b[1] * 256 + b[2]

\* the body of the loop of findInodeInFile for one line: the inode when the
\* line is a LISTEN row of the port, <<>> when the line is passed over
InodeOfLine(line, port) ==
    LET fields == Fields(line) IN
    IF Len(fields) < 10 THEN <<>>
    ELSE IF fields[4] # <<"0", "A">> THEN <<>>
    ELSE LET parts == SplitN2(fields[2]) IN
         IF Len(parts) # 2 THEN <<>>
         ELSE LET dec == HexDecode(parts[2]) IN
              IF ~dec.ok \/ Len(dec.bytes) # 2 THEN <<>>
              ELSE IF LocalPort(dec.bytes) = port THEN fields[10] ELSE <<>>

\* findInodeInFile: the first line after the header that gives an inode
RECURSIVE InodeFrom(_, _, _)
InodeFrom(lines, i, port) ==
    IF i > Len(lines) THEN <<>>
    ELSE IF i # 1 /\ InodeOfLine(lines[i], port) # <<>>
    THEN InodeOfLine(lines[i], port)
    ELSE InodeFrom(lines, i + 1, port)

findInodeInFile(lines, port) == InodeFrom(lines, 1, port)

Listening == <<"L", "I", "S", "T", "E", "N", "I", "N", "G">>

\* a plausible slip: the test of the local address column is left out, the
\* needle anywhere in the line is enough
LocalMatchesAlways(fields, port) == TRUE

\* "Verify the local address column matches our port exactly": the text after
\* the last colon of fields[1] is the port as a number
LocalMatches(fields, port) ==
    LET parts == Split(fields[2]) IN
    /\ Len(parts) >= 2
    /\ Atoi(parts[Len(parts)]).ok
    /\ Atoi(parts[Len(parts)]).n = port

\* the body of the loop of findPIDByPort for one line of netstat -ano: the
\* PID when the line is a LISTENING row of the port, 0 when it is passed over
\* (a row whose PID is 0 is passed over by findExeByPort)
PidOfLine(raw, port) ==
    LET line == TrimSpaceLine(raw)
        needle == <<":">> \o Itoa(port) \o <<Sp>>
        fields == Fields(line)
    IN  IF ~Contains(line, Listening) THEN 0
        ELSE IF ~Contains(line, needle) THEN 0
        ELSE IF Len(fields) < 5 THEN 0
        ELSE IF ~LocalMatches(fields, port) THEN 0
        ELSE IF ~Atoi(fields[Len(fields)]).ok THEN 0
        ELSE Atoi(fields[Len(fields)]).n

\* findPIDByPort: the first line that gives a PID
RECURSIVE PidFrom(_, _, _)
PidFrom(lines, i, port) ==
    IF i > Len(lines) THEN 0
    ELSE IF PidOfLine(lines[i], port) # 0 THEN PidOfLine(lines[i], port)
    ELSE PidFrom(lines, i + 1, port)

findPIDByPort(lines, port) == PidFrom(lines, 1, port)

\* env is a ghost: what each row of the table is, before it is printed
NoLookup == [os |-> "none", env |-> <<>>, rows |-> <<>>, port |-> 0, pc |-> "off", out |-> <<>>]

ResFrame == UNCHANGED <<cfgVars, envVars, scanVars, hubVars, wsVars, apiVars, proxyVars, saveVars, readVars, cliVars>>

\* findSocketInode on one table file
ResolveUnix ==
    /\ res.pc = "ready" /\ res.os = "unix"
    /\ res' = [res EXCEPT !.pc = "done", !.out = findInodeInFile(res.rows, res.port)]
    /\ ResFrame

\* findPIDByPort on the output of netstat -ano
ResolveWindows ==
    /\ res.pc = "ready" /\ res.os = "windows"
    /\ res' = [res EXCEPT !.pc = "done", !.out = findPIDByPort(res.rows, res.port)]
    /\ ResFrame

(***************************************************************************)
(* Scanner (scanner: Run, scan, isOpen, probeHTTP)                         *)
(***************************************************************************)
\* a plausible slip: the dial result is ignored
isOpenAlways(port, o) == TRUE

\* isOpen: a TCP connect to the port succeeds; o is the set of listeners then
isOpen(port, o) == port \in o

\* probeHTTP: the effect of GET / with result r on the entry dp
probeHTTP(dp, r) ==
    IF r.err THEN [dp EXCEPT !.ServiceName = "tcp"]
    ELSE IF r.readErr THEN [dp EXCEPT !.ServiceName = "http"]
    ELSE LET t1 == IF r.match THEN r.title ELSE dp.Title
             t2 == IF r.server # "" /\ t1 = "" THEN r.server ELSE t1
         IN  [dp EXCEPT !.ServiceName = "http", !.Title = t2]

\* the inner loop of scan(): for port := r.Start; port <= r.End; port++
RECURSIVE SweepFrom(_, _, _, _, _)
SweepFrom(port, end, o, now, h) ==
    IF port > end THEN <<>>
    ELSE (IF isOpen(port, o)
          THEN <<probeHTTP(DiscoveredPort(port, TRUE, now, "scan"), h[port])>>
          ELSE <<>>)
         \o SweepFrom(port + 1, end, o, now, h)

\* the outer loop of scan(): for _, r := range ranges
RECURSIVE SweepRanges(_, _, _, _)
SweepRanges(ranges, o, now, h) ==
    IF ranges = <<>> THEN <<>>
    ELSE SweepFrom(Head(ranges).Start, Head(ranges).End, o, now, h)
         \o SweepRanges(Tail(ranges), o, now, h)

\* a plausible slip: the manual loop does not consult scannedPorts
AlreadyScannedNever(sc, port) == FALSE

\* if scannedPorts[mp.Port] { continue }
AlreadyScanned(sc, port) == port \in sc

\* the body of the manual loop for a port the sweep did not find
ManualEntry(mp, o, now, h) ==
    LET dp0 == [DiscoveredPort(mp.Port, isOpen(mp.Port, o), now, "manual")
                    EXCEPT !.Title = mp.Name]
        dp1 == IF dp0.Healthy THEN probeHTTP(dp0, h[mp.Port]) ELSE dp0
    IN  IF dp0.Healthy /\ dp1.Title = "" /\ mp.Name # ""
        THEN [dp1 EXCEPT !.Title = mp.Name]
        ELSE dp1

\* the manual loop of scan(): for _, mp := range s.config.ManualPorts()
RECURSIVE ManualLoop(_, _, _, _, _)
ManualLoop(mps, sc, o, now, h) ==
    IF mps = <<>> THEN <<>>
    ELSE (IF AlreadyScanned(sc, Head(mps).Port)
          THEN <<>>
          ELSE <<ManualEntry(Head(mps), o, now, h)>>)
         \o ManualLoop(Tail(mps), sc, o, now, h)

\* scan(), first half: read the ranges and sweep them
ScanSweep ==
    /\ scPc = "scan"
    /\ cycle' = cycle + 1
    /\ scPorts' = SweepRanges(ScanRanges, open, cycle', http)
    /\ scanned' = {scPorts'[i].Port : i \in 1..Len(scPorts')}
    /\ probe' = [ranges |-> ScanRanges, sweep |-> open, manual |-> {}, mps |-> <<>>]
    /\ steady' = open
    /\ scPc' = "manual"
    /\ UNCHANGED <<cancelled, results, setLog>>
    /\ UNCHANGED <<cfgVars, envVars, hubVars, wsVars, apiVars, proxyVars, saveVars, readVars, resVars, cliVars>>

\* scan(), second half: read the manual ports, probe them, return the list
ScanManual ==
    /\ scPc = "manual"
    /\ scPorts' = scPorts \o ManualLoop(ManualPorts, scanned, open, cycle, http)
    /\ probe' = [probe EXCEPT !.manual = open, !.mps = ManualPorts]
    /\ results' = Append(results, scPorts')
    /\ scPc' = "deliver"
    /\ UNCHANGED <<scanned, cycle, cancelled, steady, setLog>>
    /\ UNCHANGED <<cfgVars, envVars, hubVars, wsVars, apiVars, proxyVars, saveVars, readVars, resVars, cliVars>>

\* Run: case <-ticker.C. Run blocks in the select until the tick comes, or
\* reaches it with a tick already in ticker.C when the scan of the previous
\* tick and its delivery outlasted the interval; when ctx.Done() is ready as
\* well, select takes either case. The ticker is created after the initial
\* scan, so no tick waits at the first select.
Tick ==
    /\ scPc = "wait"
    /\ cancelled => cycle >= 2
    /\ cycle < MaxCycles
    /\ scPc' = "scan"
    /\ UNCHANGED <<scPorts, scanned, cycle, cancelled, probe, steady, results, setLog>>
    /\ UNCHANGED <<cfgVars, envVars, hubVars, wsVars, apiVars, proxyVars, saveVars, readVars, resVars, cliVars>>

\* the caller of Run cancels the context; a Run blocked in the select is
\* woken with the case <-ctx.Done() chosen
Cancel ==
    /\ ~cancelled
    /\ cancelled' = TRUE
    /\ scPc' = IF scPc = "wait" THEN "stop" ELSE scPc
    /\ UNCHANGED <<scPorts, scanned, cycle, probe, steady, results, setLog>>
    /\ UNCHANGED <<cfgVars, envVars, hubVars, wsVars, apiVars, proxyVars, saveVars, readVars, resVars, cliVars>>

\* a plausible slip: the loop never looks at the context
CtxDoneNever(c) == FALSE

\* <-ctx.Done() can be received once the context is cancelled
CtxDone(c) == c

\* Run: case <-ctx.Done()
Return ==
    /\ scPc \in {"wait", "stop"}
    /\ CtxDone(cancelled)
    /\ scPc' = "done"
    /\ UNCHANGED <<scPorts, scanned, cycle, cancelled, probe, steady, results, setLog>>
    /\ UNCHANGED <<cfgVars, envVars, hubVars, wsVars, apiVars, proxyVars, saveVars, readVars, resVars, cliVars>>

\* a listener appears on port p, or the one on p goes away
EnvChange(p) ==
    /\ envChanges < MaxEnvChanges
    /\ envChanges' = envChanges + 1
    /\ open' = IF p \in open THEN open \ {p} ELSE open \cup {p}
    /\ steady' = steady \ {p}
    /\ UNCHANGED http
    /\ UNCHANGED <<scPc, scPorts, scanned, cycle, cancelled, probe, results, setLog>>
    /\ UNCHANGED <<cfgVars, hubVars, wsVars, apiVars, proxyVars, saveVars, readVars, resVars, cliVars>>

(***************************************************************************)
(* Hub (NewHub, Run, SetPorts, GetPorts, broadcastUpdate)                  *)
(***************************************************************************)
\* a plausible slip: the new list is merged into the held one
HubStoreMerge(old, new) == old \o new

\* a plausible slip: the assignment is left out, the held list stays
HubStoreKeep(old, new) == old

\* SetPorts: h.ports = ports, under the write lock
HubStore(old, new) == new

\* GetPorts: a copy of h.ports, under the read lock
GetPorts == ports

\* the longest list the Hub holds while a caller of GetPorts changes its copy
MaxHeld == 2

\* a plausible slip: GetPorts returns h.ports itself
ReturnHeld(ps) == [held |-> TRUE, shared |-> TRUE, elems |-> ps]

\* GetPorts as a slice: out := make([]DiscoveredPort, len(h.ports));
\* copy(out, h.ports); return out. The elements are plain values (numbers,
\* strings, a time), so the copy shares nothing with h.ports
CopyOut(ps) == [held |-> TRUE, shared |-> FALSE, elems |-> ps]

NoSlice == [held |-> FALSE, shared |-> FALSE, elems |-> <<>>]

ReadFrame == UNCHANGED <<clients, send, closed, broadcast, buPc, buMsg, nextSeq, apiCalls>>
ReadOthers == UNCHANGED <<cfgVars, envVars, scanVars, wsVars, apiVars, proxyVars, saveVars, resVars, cliVars>>

\* a caller calls GetPorts and keeps the result
ReaderGet ==
    /\ got' = CopyOut(ports)
    /\ UNCHANGED ports
    /\ ReadFrame /\ ReadOthers

\* what a store through a slice does to an array it shares: element i becomes v
StoreAt(q, i, v) == [q EXCEPT ![i] = v]

\* what append(s[:i-1], s[i:]...) does to the array of s: the elements after
\* i move down one place, the last place keeps its value
ShiftDown(q, i) == [k \in 1..Len(q) |-> IF k >= i /\ k < Len(q) THEN q[k + 1] ELSE q[k]]

\* the caller overwrites element i of the slice it got
ReaderOverwrite(i, v) ==
    /\ got.held
    /\ i \in 1..Len(got.elems)
    /\ got' = [got EXCEPT !.elems = StoreAt(@, i, v)]
    /\ ports' = IF got.shared /\ i <= Len(ports) THEN StoreAt(ports, i, v) ELSE ports
    /\ ReadFrame /\ ReadOthers

\* the caller appends to the slice it got: len == cap for a slice made by
\* make(_, n), so append moves it to a new array; a slice of h.ports itself
\* would write past len(h.ports) or move as well
ReaderAppend(v) ==
    /\ got.held
    /\ Len(got.elems) < MaxHeld + 1
    /\ got' = [got EXCEPT !.elems = Append(@, v), !.shared = FALSE]
    /\ UNCHANGED ports
    /\ ReadFrame /\ ReadOthers

\* the caller removes element i of the slice it got, in place
ReaderRemove(i) ==
    /\ got.held
    /\ i \in 1..Len(got.elems)
    /\ got' = [got EXCEPT !.elems = SubSeq(@, 1, i - 1) \o SubSeq(@, i + 1, Len(@))]
    /\ ports' = IF got.shared /\ Len(got.elems) = Len(ports) THEN ShiftDown(ports, i) ELSE ports
    /\ ReadFrame /\ ReadOthers

\* SetPorts with a new list (the broadcast it starts is left out here)
HubSetPorts(ps) ==
    /\ ports' = HubStore(ports, ps)
    /\ UNCHANGED got
    /\ ReadFrame /\ ReadOthers

\* the update message (WSMessage{Type: "update"}), as its JSON fields;
\* kind and seq are ghosts: "init" or "bcast", and the rank on Hub.broadcast
Message(k, ps, ms, n) == [kind |-> k, ports |-> ps, mappings |-> ms, seq |-> n]
NoMessage == Message("none", <<>>, <<>>, 0)

\* the JSON fields of a message's data: the fields of the struct that
\* broadcastUpdate and the /ws handler marshal
DataFields(m) == DOMAIN m \ {"kind", "seq"}

\* SetPorts, called by the scanner's onChange: replace, then broadcastUpdate
ScannerSetPorts ==
    /\ scPc = "deliver"
    /\ ports' = HubStore(ports, scPorts)
    /\ setLog' = Append(setLog, scPorts)
    /\ scPc' = "broadcast"
    /\ buPc' = [buPc EXCEPT !["scanner"] = "ports"]
    /\ UNCHANGED <<scPorts, scanned, cycle, cancelled, probe, steady, results>>
    /\ UNCHANGED <<clients, send, closed, broadcast, buMsg, nextSeq, apiCalls>>
    /\ UNCHANGED <<cfgVars, envVars, wsVars, apiVars, proxyVars, saveVars, readVars, resVars, cliVars>>

\* broadcastUpdate: Ports: h.GetPorts()
BuildPorts(c) ==
    /\ buPc[c] = "ports"
    /\ buMsg' = [buMsg EXCEPT ![c] = Message("bcast", GetPorts, <<>>, 0)]
    /\ buPc' = [buPc EXCEPT ![c] = "mappings"]
    /\ UNCHANGED <<ports, clients, send, closed, broadcast, nextSeq, apiCalls>>
    /\ UNCHANGED <<cfgVars, envVars, scanVars, wsVars, apiVars, proxyVars, saveVars, readVars, resVars, cliVars>>

\* broadcastUpdate: Mappings: h.config.Mappings(), and the marshalling
BuildMappings(c) ==
    /\ buPc[c] = "mappings"
    /\ buMsg' = [buMsg EXCEPT ![c].mappings = Mappings]
    /\ buPc' = [buPc EXCEPT ![c] = "enqueue"]
    /\ UNCHANGED <<ports, clients, send, closed, broadcast, nextSeq, apiCalls>>
    /\ UNCHANGED <<cfgVars, envVars, scanVars, wsVars, apiVars, proxyVars, saveVars, readVars, resVars, cliVars>>

\* a plausible slip: the message is put at the front of the queue
ChanSendFront(q, m) == <<m>> \o q

\* a send on a buffered channel with room: the message joins the back
ChanSend(q, m) == Append(q, m)

\* broadcastUpdate: h.broadcast <- data, which waits while the channel is full;
\* the call returns (for the scanner: back to the select of Run)
Enqueue(c) ==
    /\ buPc[c] = "enqueue"
    /\ Len(broadcast) < BroadcastCap
    /\ nextSeq' = nextSeq + 1
    /\ broadcast' = ChanSend(broadcast, [buMsg[c] EXCEPT !.seq = nextSeq'])
    /\ buPc' = [buPc EXCEPT ![c] = "idle"]
    /\ buMsg' = [buMsg EXCEPT ![c] = NoMessage]
    /\ scPc' = IF c = "scanner" THEN "wait" ELSE scPc
    /\ UNCHANGED <<ports, clients, send, closed, apiCalls>>
    /\ UNCHANGED <<scPorts, scanned, cycle, cancelled, probe, steady, results, setLog>>
    /\ UNCHANGED <<cfgVars, envVars, wsVars, apiVars, proxyVars, saveVars, readVars, resVars, cliVars>>

\* Run: case client := <-h.register (the /ws handler waits in hub.register <- client
\* until this receive); the handler then starts the two pumps
HubRegister(c) ==
    /\ wsPc[c] = "register"
    /\ clients' = clients \cup {c}
    /\ wsPc' = [wsPc EXCEPT ![c] = "build"]
    /\ rdPc' = [rdPc EXCEPT ![c] = "reading"]
    /\ wrPc' = [wrPc EXCEPT ![c] = "running"]
    /\ UNCHANGED <<ports, send, closed, broadcast, buPc, buMsg, nextSeq, apiCalls>>
    /\ UNCHANGED <<wsMsg, recv, firstEnq, panicked>>
    /\ UNCHANGED <<cfgVars, envVars, scanVars, apiVars, proxyVars, saveVars, readVars, resVars, cliVars>>

\* a plausible slip: the membership test is left out
KnownAlways(cs, c) == TRUE

\* Run: if _, ok := h.clients[client]; ok
Known(cs, c) == c \in cs

\* Run: case client := <-h.unregister (readPump waits in c.hub.unregister <- c
\* until this receive)
HubUnregister(c) ==
    /\ rdPc[c] = "unregister"
    /\ rdPc' = [rdPc EXCEPT ![c] = "done"]
    /\ IF Known(clients, c)
       THEN /\ clients' = clients \ {c}
            /\ closed' = [closed EXCEPT ![c] = TRUE]
            /\ panicked' = (panicked \/ closed[c])
       ELSE UNCHANGED <<clients, closed, panicked>>
    /\ UNCHANGED <<ports, send, broadcast, buPc, buMsg, nextSeq, apiCalls>>
    /\ UNCHANGED <<wsPc, wsMsg, wrPc, recv, firstEnq>>
    /\ UNCHANGED <<cfgVars, envVars, scanVars, apiVars, proxyVars, saveVars, readVars, resVars, cliVars>>

\* a plausible slip: a full queue is not detected, the subscriber stays registered
HasRoomAlways(q) == TRUE

\* select { case client.send <- msg: ... default: ... }: the send is taken when
\* the queue has room
HasRoom(q) == Len(q) < SendCap

\* a plausible slip: the default case of the select is missing, nobody is dropped
DroppedNone(cs, sq) == {}

\* the subscribers the broadcast case drops: those whose queue is full
Dropped(cs, sq) == {c \in cs : ~HasRoom(sq[c])}

\* a plausible slip: a plain client.send <- msg, which waits for room
LoopWaitsForRoom(cs, sq) == \A c \in cs : HasRoom(sq[c])

\* the inner select has a default arm: the loop over h.clients never waits
\* for a subscriber, whatever the queues hold
LoopProceeds(cs, sq) == TRUE

\* Run: case msg := <-h.broadcast, the whole loop over h.clients.  Each
\* subscriber's queue is touched once, so the loop commutes with the steps of
\* the other goroutines and is taken as one step.
HubBroadcast ==
    /\ broadcast # <<>>
    /\ LoopProceeds(clients, send)
    /\ LET msg == Head(broadcast)
           drop == Dropped(clients, send)
       IN  /\ send' = [c \in Clients |->
                          IF c \in clients /\ c \notin drop /\ ~closed[c]
                          THEN ChanSend(send[c], msg) ELSE send[c]]
           /\ closed' = [c \in Clients |-> closed[c] \/ c \in drop]
           /\ clients' = clients \ drop
           /\ firstEnq' = [c \in Clients |->
                              IF c \in clients /\ c \notin drop /\ firstEnq[c] = "none"
                              THEN "bcast" ELSE firstEnq[c]]
           /\ panicked' = (panicked \/ \E c \in clients : closed[c])
    /\ broadcast' = Tail(broadcast)
    /\ UNCHANGED <<ports, buPc, buMsg, nextSeq, apiCalls>>
    /\ UNCHANGED <<wsPc, wsMsg, rdPc, wrPc, recv>>
    /\ UNCHANGED <<cfgVars, envVars, scanVars, apiVars, proxyVars, saveVars, readVars, resVars, cliVars>>

(***************************************************************************)
(* Dashboard handler (/ws, /api/mappings) and the pumps of a subscriber    *)
(***************************************************************************)
\* /ws: the upgrade succeeded, the client is created with an empty send channel
WsConnect(c) ==
    /\ wsPc[c] = "idle"
    /\ wsPc' = [wsPc EXCEPT ![c] = "register"]
    /\ UNCHANGED <<wsMsg, rdPc, wrPc, recv, firstEnq, panicked>>
    /\ UNCHANGED <<cfgVars, envVars, scanVars, hubVars, apiVars, proxyVars, saveVars, readVars, resVars, cliVars>>

\* /ws: "Send initial state", the message is built from GetPorts and Mappings
WsBuild(c) ==
    /\ wsPc[c] = "build"
    /\ wsMsg' = [wsMsg EXCEPT ![c] = Message("init", GetPorts, Mappings, 0)]
    /\ wsPc' = [wsPc EXCEPT ![c] = "send"]
    /\ UNCHANGED <<rdPc, wrPc, recv, firstEnq, panicked>>
    /\ UNCHANGED <<cfgVars, envVars, scanVars, hubVars, apiVars, proxyVars, saveVars, readVars, resVars, cliVars>>

\* /ws: client.send <- data: waits while the queue is full, panics when the
\* channel has been closed
WsSend(c) ==
    /\ wsPc[c] = "send"
    /\ closed[c] \/ Len(send[c]) < SendCap
    /\ wsPc' = [wsPc EXCEPT ![c] = "done"]
    /\ IF closed[c]
       THEN /\ panicked' = TRUE
            /\ UNCHANGED <<send, firstEnq>>
       ELSE /\ send' = [send EXCEPT ![c] = ChanSend(send[c], wsMsg[c])]
            /\ firstEnq' = [firstEnq EXCEPT ![c] =
                               IF firstEnq[c] = "none" THEN "init" ELSE firstEnq[c]]
            /\ UNCHANGED panicked
    /\ UNCHANGED <<ports, clients, closed, broadcast, buPc, buMsg, nextSeq, apiCalls>>
    /\ UNCHANGED <<wsMsg, rdPc, wrPc, recv>>
    /\ UNCHANGED <<cfgVars, envVars, scanVars, apiVars, proxyVars, saveVars, readVars, resVars, cliVars>>

\* readPump: ReadMessage fails (the peer went away or the connection was
\* closed); the deferred function goes on to c.hub.unregister <- c
ReadError(c) ==
    /\ rdPc[c] = "reading"
    /\ rdPc' = [rdPc EXCEPT ![c] = "unregister"]
    /\ UNCHANGED <<wsPc, wsMsg, wrPc, recv, firstEnq, panicked>>
    /\ UNCHANGED <<cfgVars, envVars, scanVars, hubVars, apiVars, proxyVars, saveVars, readVars, resVars, cliVars>>

\* writePump: for msg := range c.send, one message written to the connection
WritePump(c) ==
    /\ wrPc[c] = "running"
    /\ send[c] # <<>>
    /\ recv' = [recv EXCEPT ![c] = Append(recv[c], Head(send[c]))]
    /\ send' = [send EXCEPT ![c] = Tail(send[c])]
    /\ UNCHANGED <<ports, clients, closed, broadcast, buPc, buMsg, nextSeq, apiCalls>>
    /\ UNCHANGED <<wsPc, wsMsg, rdPc, wrPc, firstEnq, panicked>>
    /\ UNCHANGED <<cfgVars, envVars, scanVars, apiVars, proxyVars, saveVars, readVars, resVars, cliVars>>

\* writePump: WriteMessage fails and the loop breaks, or the channel is closed
\* and drained and the loop ends
WritePumpExit(c) ==
    /\ wrPc[c] = "running"
    /\ \/ /\ send[c] # <<>>
          /\ send' = [send EXCEPT ![c] = Tail(send[c])]
       \/ /\ send[c] = <<>>
          /\ closed[c]
          /\ UNCHANGED send
    /\ wrPc' = [wrPc EXCEPT ![c] = "done"]
    /\ UNCHANGED <<ports, clients, closed, broadcast, buPc, buMsg, nextSeq, apiCalls>>
    /\ UNCHANGED <<wsPc, wsMsg, rdPc, recv, firstEnq, panicked>>
    /\ UNCHANGED <<cfgVars, envVars, scanVars, apiVars, proxyVars, saveVars, readVars, resVars, cliVars>>

\* POST /api/mappings with a valid body: AddMapping, then on success
\* broadcastUpdate (a failed Save answers 500 and broadcasts nothing)
ApiAddMapping(d, p) ==
    /\ buPc["api"] = "idle"
    /\ apiCalls < MaxApiCalls
    /\ apiCalls' = apiCalls + 1
    /\ AddMapping(DomainMapping(d, p, FALSE))
    /\ buPc' = [buPc EXCEPT !["api"] = IF lastOp'.err THEN "idle" ELSE "ports"]
    /\ UNCHANGED <<ports, clients, send, closed, broadcast, buMsg, nextSeq>>
    /\ UNCHANGED <<envVars, scanVars, wsVars, apiVars, proxyVars, saveVars, readVars, resVars, cliVars>>

\* DELETE /api/mappings?domain=d for a mapping that is not a system mapping
ApiRemoveMapping(d) ==
    /\ buPc["api"] = "idle"
    /\ apiCalls < MaxApiCalls
    /\ \A i \in 1..Len(Mappings) : ~(Mappings[i].Domain = d /\ Mappings[i].System)
    /\ apiCalls' = apiCalls + 1
    /\ RemoveMapping(d)
    /\ buPc' = [buPc EXCEPT !["api"] = IF lastOp'.err THEN "idle" ELSE "ports"]
    /\ UNCHANGED <<ports, clients, send, closed, broadcast, buMsg, nextSeq>>
    /\ UNCHANGED <<envVars, scanVars, wsVars, apiVars, proxyVars, saveVars, readVars, resVars, cliVars>>

(***************************************************************************)
(* Strings the handlers take apart.  A string is a sequence of atoms: a     *)
(* label, a dot, a colon, a comma, a blank; strings.ToLower, TrimSpace,    *)
(* HasSuffix and TrimSuffix work on the sequence as Go's work on the bytes. *)
(***************************************************************************)
\* strings.ToLower on one atom
Lower(a) ==
    CASE a = "Portgate" -> "portgate"
      [] a = "Api" -> "api"
      [] a = "Localhost" -> "localhost"
      [] a = "Upgrade" -> "upgrade"
      [] a = "WebSocket" -> "websocket"
      [] a = "Keep-Alive" -> "keep-alive"
      [] OTHER -> a

ToLower(s) == [i \in 1..Len(s) |-> Lower(s[i])]

\* strings.EqualFold(s, t)
EqualFold(s, t) == ToLower(s) = ToLower(t)

RECURSIVE TrimLeft(_)
TrimLeft(s) == IF s # <<>> /\ Head(s) = " " THEN TrimLeft(Tail(s)) ELSE s

RECURSIVE TrimRight(_)
TrimRight(s) ==
    IF s # <<>> /\ s[Len(s)] = " " THEN TrimRight(SubSeq(s, 1, Len(s) - 1)) ELSE s

\* strings.TrimSpace(s)
TrimSpace(s) == TrimRight(TrimLeft(s))

\* strings.HasSuffix(s, suf)
HasSuffix(s, suf) ==
    Len(s) >= Len(suf) /\ SubSeq(s, Len(s) - Len(suf) + 1, Len(s)) = suf

\* strings.TrimSuffix(s, suf): one copy of suf is cut from the end
TrimSuffix(s, suf) == IF HasSuffix(s, suf) THEN SubSeq(s, 1, Len(s) - Len(suf)) ELSE s

\* the string a sequence of atoms spells
RECURSIVE Join(_)
Join(s) == IF s = <<>> THEN "" ELSE Head(s) \o Join(Tail(s))

(***************************************************************************)
(* Dashboard handler: /api/mappings, the whole POST and DELETE cases       *)
(***************************************************************************)
\* the port the dashboard listens on (flag dashboard-port)
DashPort == 8080

\* EnsureDefaultMapping(dashPort): the mapping of the dashboard itself,
\* domain "portgate", with the system flag
SystemMapping == DomainMapping("portgate", DashPort, TRUE)
EnsureDefaultMapping(c) ==
    [c EXCEPT !.Mappings = Append(FilterDomain(c.Mappings, "portgate"), SystemMapping)]

\* POST: domain := TrimSuffix(ToLower(TrimSpace(req.Domain)), ".localhost")
NormalizeDomain(raw) == Join(TrimSuffix(ToLower(TrimSpace(raw)), <<".", "localhost">>))

\* POST: if domain == "portgate" || domain == ""
ReservedDomain(domain) == domain = "portgate" \/ domain = ""

\* the request is answered without a change of state
ApiRefuse(code) ==
    /\ apiReply' = code
    /\ UNCHANGED <<cfgVars, buPc>>

\* POST /api/mappings with a body that decodes to {domain: raw, port: port}
PostMapping(raw, port) ==
    /\ buPc["api"] = "idle"
    /\ apiCalls < MaxRequests
    /\ apiCalls' = apiCalls + 1
    /\ apiReq' = [method |-> "POST", domain |-> raw, port |-> port]
    /\ IF raw = <<>> \/ port = 0
       THEN ApiRefuse(400)
       ELSE IF ReservedDomain(NormalizeDomain(raw))
       THEN ApiRefuse(400)
       ELSE /\ AddMapping(DomainMapping(NormalizeDomain(raw), port, FALSE))
            /\ apiReply' = IF lastOp'.err THEN 500 ELSE 201
            /\ buPc' = [buPc EXCEPT !["api"] = IF lastOp'.err THEN "idle" ELSE "ports"]
    /\ UNCHANGED <<ports, clients, send, closed, broadcast, buMsg, nextSeq>>
    /\ UNCHANGED <<envVars, scanVars, wsVars, proxyVars, saveVars, readVars, resVars, cliVars>>

\* a plausible slip: the system test is left out
SystemDomainNever(ms, domain) == FALSE

\* DELETE: for _, m := range Mappings() { if m.Domain == domain && m.System
SystemDomain(ms, domain) ==
    \E i \in 1..Len(ms) : ms[i].Domain = domain /\ ms[i].System

\* DELETE /api/mappings?domain=raw (the query value is used as it is)
DeleteMapping(raw) ==
    /\ buPc["api"] = "idle"
    /\ apiCalls < MaxRequests
    /\ apiCalls' = apiCalls + 1
    /\ apiReq' = [method |-> "DELETE", domain |-> raw, port |-> 0]
    /\ IF raw = <<>>
       THEN ApiRefuse(400)
       ELSE IF SystemDomain(Mappings, Join(raw))
       THEN ApiRefuse(403)
       ELSE /\ RemoveMapping(Join(raw))
            /\ apiReply' = IF lastOp'.err THEN 500 ELSE 204
            /\ buPc' = [buPc EXCEPT !["api"] = IF lastOp'.err THEN "idle" ELSE "ports"]
    /\ UNCHANGED <<ports, clients, send, closed, broadcast, buMsg, nextSeq>>
    /\ UNCHANGED <<envVars, scanVars, wsVars, proxyVars, saveVars, readVars, resVars, cliVars>>

(***************************************************************************)
(* ProxyHandler: routing by the Host header                                *)
(***************************************************************************)
\* net.SplitHostPort for a host without brackets: the text after the last
\* colon is the port; no colon, or a colon in what is left, is an error
SplitHostPort(hostport) ==
    LET colons == {i \in 1..Len(hostport) : hostport[i] = ":"} IN
    IF colons = {}
    THEN [host |-> <<>>, err |-> TRUE]
    ELSE LET last == CHOOSE i \in colons : \A j \in colons : j <= i IN
         IF Cardinality(colons) > 1
         THEN [host |-> <<>>, err |-> TRUE]
         ELSE [host |-> SubSeq(hostport, 1, last - 1), err |-> FALSE]

\* a plausible slip: the port is never stripped
StripPortNever(hostport) == hostport

\* "Strip port if present": host = h only when SplitHostPort succeeds
StripPort(hostport) ==
    IF SplitHostPort(hostport).err THEN hostport ELSE SplitHostPort(hostport).host

\* hub.config.DomainSuffix()
DomainSuffix == pxSuffix

\* extractSubdomain(host, suffix)
extractSubdomain(host, suffix) ==
    LET dotSuffix == <<".">> \o suffix IN
    IF ~HasSuffix(host, dotSuffix) THEN <<>> ELSE TrimSuffix(host, dotSuffix)

\* a plausible slip: the mapping lookup comes first
ReservedNever(subdomain) == subdomain = ""

\* "Reserved: bare localhost or portgate": subdomain == "" || subdomain == "portgate"
Reserved(subdomain) == subdomain = "" \/ subdomain = "portgate"

\* isWebSocketUpgrade: both header values are compared whole, case folded
isWebSocketUpgrade(r) ==
    /\ EqualFold(r.Connection, <<"upgrade">>)
    /\ EqualFold(r.Upgrade, <<"websocket">>)

\* what ProxyHandler decides for request r: where it goes, with the locals
\* subdomain and port
Route(r, suffix, ms) ==
    LET subdomain == Join(extractSubdomain(StripPort(r.Host), suffix))
        port == LookupPortIn(ms, subdomain)
    IN  IF Reserved(subdomain)
        THEN [to |-> "dashboard", sub |-> subdomain, port |-> 0]
        ELSE IF port = 0
        THEN [to |-> "redirect", sub |-> subdomain, port |-> 0]
        ELSE IF isWebSocketUpgrade(r)
        THEN [to |-> "websocket", sub |-> subdomain, port |-> port]
        ELSE [to |-> "buffered", sub |-> subdomain, port |-> port]

\* ProxyHandler up to the branch it takes: to the dashboard, the 307
\* redirect, handleWebSocket, or the ReverseProxy
ProxyServe(r) ==
    /\ pxPc = "idle"
    /\ pxReq' = r
    /\ LET d == Route(r, DomainSuffix, Mappings) IN
       /\ pxSub' = d.sub
       /\ pxPort' = d.port
       /\ pxPc' = CASE d.to = "dashboard" -> "dashboard"
                    [] d.to = "redirect" -> "done"
                    [] d.to = "websocket" -> "dial"
                    [] OTHER -> "buffered"
       /\ pxReply' = IF d.to = "redirect" THEN 307 ELSE 0
    /\ UNCHANGED <<pxSuffix, pxFwd, connVars, upVars, downVars, firstDone>>
    /\ UNCHANGED <<cfgVars, envVars, scanVars, hubVars, wsVars, apiVars, saveVars, readVars, resVars, cliVars>>

\* a plausible slip: the Director leaves the upstream host in req.Host
DirectorHostTarget(r, target) == <<target>>

\* Director: req.Host = r.Host, the Host header as the client sent it
DirectorHost(r, target) == r.Host

\* the target of a mapped request: fmt.Sprintf("127.0.0.1:%d", port)
Target(port) == "127.0.0.1:" \o ToString(port)

\* the handler is over for the HTTP server: nothing of the tunnel exists
NoTunnel == UNCHANGED <<connVars, upVars, downVars, firstDone>>

\* proxyToDashboard: a ReverseProxy to the dashboard address, Host untouched,
\* with the default error handler (502)
ProxyToDashboard ==
    /\ pxPc = "dashboard"
    /\ \E ok \in BOOLEAN :
          /\ pxFwd' = [addr |-> "dashboard", Host |-> pxReq.Host, relayed |-> ok]
          /\ pxReply' = IF ok THEN 0 ELSE 502
    /\ pxPc' = "done"
    /\ NoTunnel
    /\ UNCHANGED <<pxSuffix, pxReq, pxSub, pxPort>>
    /\ UNCHANGED <<cfgVars, envVars, scanVars, hubVars, wsVars, apiVars, saveVars, readVars, resVars, cliVars>>

\* "Regular HTTP reverse proxy": the request goes to the target with the Host
\* the Director sets; the backend's answer is relayed, or the ErrorHandler
\* answers 502
BufferedProxy ==
    /\ pxPc = "buffered"
    /\ \E ok \in BOOLEAN :
          /\ pxFwd' = [addr |-> Target(pxPort),
                       Host |-> DirectorHost(pxReq, Target(pxPort)),
                       relayed |-> ok]
          /\ pxReply' = IF ok THEN 0 ELSE 502
    /\ pxPc' = "done"
    /\ NoTunnel
    /\ UNCHANGED <<pxSuffix, pxReq, pxSub, pxPort>>
    /\ UNCHANGED <<cfgVars, envVars, scanVars, hubVars, wsVars, apiVars, saveVars, readVars, resVars, cliVars>>

(***************************************************************************)
(* handleWebSocket                                                         *)
(***************************************************************************)
\* "Dial backend": net.DialTimeout succeeds, or fails and the answer is 502
WsDial ==
    /\ pxPc = "dial"
    /\ \E ok \in BOOLEAN :
          IF ok
          THEN /\ backendConn' = "open"
               /\ pxPc' = "hijack"
               /\ UNCHANGED pxReply
          ELSE /\ pxReply' = 502
               /\ pxPc' = "done"
               /\ UNCHANGED backendConn
    /\ UNCHANGED <<pxSuffix, pxReq, pxSub, pxPort, pxFwd>>
    /\ UNCHANGED <<clientConn, cPeer, bPeer, upVars, downVars, firstDone>>
    /\ UNCHANGED <<cfgVars, envVars, scanVars, hubVars, wsVars, apiVars, saveVars, readVars, resVars, cliVars>>

\* the client bytes the HTTP server may have read ahead: every prefix of
\* what is on the wire
Prefixes(q) == {SubSeq(q, 1, k) : k \in 0..Len(q)}

\* a plausible slip: a failure path returns without closing
CloseLeak(conn) == conn

\* conn.Close()
Close(conn) == "closed"

\* "Hijack client connection": the writer is no Hijacker, or Hijack fails
\* (500, backendConn.Close()), or the connection and its buffer are handed over
WsHijack ==
    /\ pxPc = "hijack"
    /\ \E outcome \in {"unsupported", "error", "ok"} :
          IF outcome = "ok"
          THEN /\ clientConn' = "hijacked"
               /\ \E pre \in Prefixes(cWire) :
                     /\ cBuf' = pre
                     /\ cWire' = SubSeq(cWire, Len(pre) + 1, Len(cWire))
               /\ pxPc' = "write"
               /\ UNCHANGED <<pxReply, backendConn>>
          ELSE /\ pxReply' = 500
               /\ backendConn' = Close(backendConn)
               /\ pxPc' = "done"
               /\ UNCHANGED <<clientConn, cBuf, cWire>>
    /\ UNCHANGED <<pxSuffix, pxReq, pxSub, pxPort, pxFwd>>
    /\ UNCHANGED <<cPeer, bPeer, cSent, upBuf, upPc, toBackend, downVars, firstDone>>
    /\ UNCHANGED <<cfgVars, envVars, scanVars, hubVars, wsVars, apiVars, saveVars, readVars, resVars, cliVars>>

\* "Forward the original request to backend": r.Write(backendConn); on an
\* error both connections are closed
WsWriteRequest ==
    /\ pxPc = "write"
    /\ \E ok \in BOOLEAN :
          IF ok
          THEN /\ toBackend' = Append(toBackend, "request")
               /\ pxPc' = "flush"
               /\ UNCHANGED <<clientConn, backendConn>>
          ELSE /\ clientConn' = Close(clientConn)
               /\ backendConn' = Close(backendConn)
               /\ pxPc' = "done"
               /\ UNCHANGED toBackend
    /\ UNCHANGED <<pxSuffix, pxReq, pxSub, pxPort, pxReply, pxFwd>>
    /\ UNCHANGED <<cPeer, bPeer, cSent, cWire, cBuf, upBuf, upPc, downVars, firstDone>>
    /\ UNCHANGED <<cfgVars, envVars, scanVars, hubVars, wsVars, apiVars, saveVars, readVars, resVars, cliVars>>

\* a plausible slip: the buffered bytes are dropped
FlushDrop(written, buffered) == written

\* "Flush any buffered data from client": the buffered bytes follow what was
\* written
Flush(written, buffered) == written \o buffered

\* the flush, then the two go statements; the handler returns
WsFlush ==
    /\ pxPc = "flush"
    /\ toBackend' = Flush(toBackend, cBuf)
    /\ cBuf' = <<>>
    /\ upPc' = "read"
    /\ downPc' = "read"
    /\ pxPc' = "relay"
    /\ UNCHANGED <<pxSuffix, pxReq, pxSub, pxPort, pxReply, pxFwd>>
    /\ UNCHANGED <<connVars, cSent, cWire, upBuf, bSent, bWire, downBuf, toClient, firstDone>>
    /\ UNCHANGED <<cfgVars, envVars, scanVars, hubVars, wsVars, apiVars, saveVars, readVars, resVars, cliVars>>

\* the client sends one more byte on its connection (byte n is the n-th it sends)
ClientSend ==
    /\ pxPc \in {"dial", "hijack", "write", "flush", "relay"}
    /\ cPeer = "up"
    /\ Len(cSent) < MaxBytes
    /\ cSent' = Append(cSent, Len(cSent) + 1)
    /\ cWire' = Append(cWire, Len(cSent) + 1)
    /\ UNCHANGED <<routeVars, connVars, cBuf, upBuf, upPc, toBackend, downVars, firstDone>>
    /\ UNCHANGED <<cfgVars, envVars, scanVars, hubVars, wsVars, apiVars, saveVars, readVars, resVars, cliVars>>

\* the client closes its end: the proxy reads EOF once the wire is drained
ClientClose ==
    /\ pxPc \in {"write", "flush", "relay"}
    /\ cPeer \in {"up", "stalled"}
    /\ cPeer' = "closed"
    /\ UNCHANGED <<routeVars, clientConn, backendConn, bPeer, upVars, downVars, firstDone>>
    /\ UNCHANGED <<cfgVars, envVars, scanVars, hubVars, wsVars, apiVars, saveVars, readVars, resVars, cliVars>>

\* the client stops reading: once its window is full a Write to clientConn
\* blocks until the client closes
ClientStall ==
    /\ pxPc = "relay"
    /\ cPeer = "up"
    /\ cPeer' = "stalled"
    /\ UNCHANGED <<routeVars, clientConn, backendConn, bPeer, upVars, downVars, firstDone>>
    /\ UNCHANGED <<cfgVars, envVars, scanVars, hubVars, wsVars, apiVars, saveVars, readVars, resVars, cliVars>>

\* the backend stops reading: a Write to backendConn blocks until it closes
BackendStall ==
    /\ pxPc = "relay"
    /\ backendConn = "open"
    /\ bPeer = "up"
    /\ bPeer' = "stalled"
    /\ UNCHANGED <<routeVars, clientConn, backendConn, cPeer, upVars, downVars, firstDone>>
    /\ UNCHANGED <<cfgVars, envVars, scanVars, hubVars, wsVars, apiVars, saveVars, readVars, resVars, cliVars>>

\* the backend sends one more byte
BackendSend ==
    /\ backendConn = "open"
    /\ bPeer = "up"
    /\ "request" \in SeqToSet(toBackend)
    /\ Len(bSent) < MaxBytes
    /\ bSent' = Append(bSent, Len(bSent) + 1)
    /\ bWire' = Append(bWire, Len(bSent) + 1)
    /\ UNCHANGED <<routeVars, connVars, upVars, downBuf, downPc, toClient, firstDone>>
    /\ UNCHANGED <<cfgVars, envVars, scanVars, hubVars, wsVars, apiVars, saveVars, readVars, resVars, cliVars>>

\* the backend closes its end
BackendClose ==
    /\ backendConn = "open"
    /\ bPeer \in {"up", "stalled"}
    /\ bPeer' = "closed"
    /\ UNCHANGED <<routeVars, clientConn, backendConn, cPeer, upVars, downVars, firstDone>>
    /\ UNCHANGED <<cfgVars, envVars, scanVars, hubVars, wsVars, apiVars, saveVars, readVars, resVars, cliVars>>

\* the direction that returns from io.Copy first
First(dir) == IF firstDone = "" THEN dir ELSE firstDone

\* io.Copy(backendConn, clientConn), the Read: bytes arrive, or the client has
\* closed (EOF), or clientConn was closed on this side (error)
UpRead ==
    /\ upPc = "read"
    /\ IF clientConn = "closed"
       THEN /\ upPc' = "close"
            /\ firstDone' = First("up")
            /\ UNCHANGED <<cWire, upBuf>>
       ELSE IF cWire # <<>>
       THEN /\ upBuf' = cWire
            /\ cWire' = <<>>
            /\ upPc' = "write"
            /\ UNCHANGED firstDone
       ELSE /\ cPeer = "closed"
            /\ upPc' = "close"
            /\ firstDone' = First("up")
            /\ UNCHANGED <<cWire, upBuf>>
    /\ UNCHANGED <<routeVars, connVars, cSent, cBuf, toBackend, downVars>>
    /\ UNCHANGED <<cfgVars, envVars, scanVars, hubVars, wsVars, apiVars, saveVars, readVars, resVars, cliVars>>

\* io.Copy(backendConn, clientConn), the Write: the bytes read go to the
\* backend unless it has stopped reading (the Write blocks), or the write
\* fails because the backend has gone
UpWrite ==
    /\ upPc = "write"
    /\ \/ /\ bPeer # "stalled"
          /\ toBackend' = toBackend \o upBuf
          /\ upBuf' = <<>>
          /\ upPc' = "read"
          /\ UNCHANGED firstDone
       \/ /\ bPeer = "closed"
          /\ upBuf' = <<>>
          /\ upPc' = "close"
          /\ firstDone' = First("up")
          /\ UNCHANGED toBackend
    /\ UNCHANGED <<routeVars, connVars, cSent, cWire, cBuf, downVars>>
    /\ UNCHANGED <<cfgVars, envVars, scanVars, hubVars, wsVars, apiVars, saveVars, readVars, resVars, cliVars>>

\* the first goroutine after io.Copy: backendConn.Close()
UpClose ==
    /\ upPc = "close"
    /\ backendConn' = Close(backendConn)
    /\ upPc' = "done"
    /\ UNCHANGED <<routeVars, clientConn, cPeer, bPeer, firstDone>>
    /\ UNCHANGED <<cSent, cWire, cBuf, upBuf, toBackend, downVars>>
    /\ UNCHANGED <<cfgVars, envVars, scanVars, hubVars, wsVars, apiVars, saveVars, readVars, resVars, cliVars>>

\* io.Copy(clientConn, backendConn), the Read
DownRead ==
    /\ downPc = "read"
    /\ IF backendConn = "closed"
       THEN /\ downPc' = "close"
            /\ firstDone' = First("down")
            /\ UNCHANGED <<bWire, downBuf>>
       ELSE IF bWire # <<>>
       THEN /\ downBuf' = bWire
            /\ bWire' = <<>>
            /\ downPc' = "write"
            /\ UNCHANGED firstDone
       ELSE /\ bPeer = "closed"
            /\ downPc' = "close"
            /\ firstDone' = First("down")
            /\ UNCHANGED <<bWire, downBuf>>
    /\ UNCHANGED <<routeVars, connVars, upVars, bSent, toClient>>
    /\ UNCHANGED <<cfgVars, envVars, scanVars, hubVars, wsVars, apiVars, saveVars, readVars, resVars, cliVars>>

\* io.Copy(clientConn, backendConn), the Write
DownWrite ==
    /\ downPc = "write"
    /\ \/ /\ cPeer # "stalled"
          /\ toClient' = toClient \o downBuf
          /\ downBuf' = <<>>
          /\ downPc' = "read"
          /\ UNCHANGED firstDone
       \/ /\ cPeer = "closed"
          /\ downBuf' = <<>>
          /\ downPc' = "close"
          /\ firstDone' = First("down")
          /\ UNCHANGED toClient
    /\ UNCHANGED <<routeVars, connVars, upVars, bSent, bWire>>
    /\ UNCHANGED <<cfgVars, envVars, scanVars, hubVars, wsVars, apiVars, saveVars, readVars, resVars, cliVars>>

\* the second goroutine after io.Copy: clientConn.Close()
DownClose ==
    /\ downPc = "close"
    /\ clientConn' = Close(clientConn)
    /\ downPc' = "done"
    /\ UNCHANGED <<routeVars, backendConn, cPeer, bPeer, firstDone>>
    /\ UNCHANGED <<upVars, bSent, bWire, downBuf, toClient>>
    /\ UNCHANGED <<cfgVars, envVars, scanVars, hubVars, wsVars, apiVars, saveVars, readVars, resVars, cliVars>>

(***************************************************************************)
(* main (main.go): the command line.  args are the arguments after the     *)
(* program's name; a command word is a string, a number or range argument  *)
(* is a text, a sequence of characters.                                    *)
(***************************************************************************)
NoRun == [args |-> <<>>, pc |-> "off", ran |-> "", started |-> {}, exit |-> 0]

\* the largest port number
MaxPortNumber == 65535

\* what cmdStart starts before it waits for a signal: go hub.Run(), go
\* scanner.Run(ctx), the two servers, the update check
StartedByStart == {"hub", "scanner", "dashboard", "proxy", "update-check"}

\* fmt.Sscanf's %d at the head of text t: an optional sign and at least one
\* digit; rest is what follows the number
RECURSIVE DigitsOf(_)
DigitsOf(t) ==
    IF t # <<>> /\ IndexOf(DecDigits, Head(t)) # 0 THEN <<Head(t)>> \o DigitsOf(Tail(t))
    ELSE <<>>

ScanInt(t) ==
    LET neg == t # <<>> /\ Head(t) = "-"
        body == IF t # <<>> /\ Head(t) \in {"-", "+"} THEN Tail(t) ELSE t
        ds == DigitsOf(body)
    IN  IF ds = <<>> THEN [ok |-> FALSE, n |-> 0, rest |-> t]
        ELSE [ok |-> TRUE,
              n |-> IF neg THEN 0 - Atoi(ds).n ELSE Atoi(ds).n,
              rest |-> SubSeq(body, Len(ds) + 1, Len(body))]

\* fmt.Sscanf(s, "%d-%d", &start, &end): both numbers with a "-" between
\* them; what follows the second number is not looked at
ScanTwo(t) ==
    LET a == ScanInt(t) IN
    IF ~a.ok \/ a.rest = <<>> \/ Head(a.rest) # "-"
    THEN [ok |-> FALSE, start |-> a.n, end |-> 0]
    ELSE LET b == ScanInt(Tail(a.rest)) IN [ok |-> b.ok, start |-> a.n, end |-> b.n]

\* a plausible slip: the test of the upper bound is left out
RangeAcceptedNoTop(p) == p.ok /\ ~(p.start > p.end \/ p.start < 1)

\* parseScanRange: the range is taken unless
\* err != nil || n != 2 || start > end || start < 1 || end > 65535
RangeAccepted(p) == p.ok /\ ~(p.start > p.end \/ p.start < 1 \/ p.end > MaxPortNumber)

\* cmdAddPort: the port is taken unless err != nil || port < 1 || port > 65535
PortAccepted(p) == p.ok /\ ~(p.n < 1 \/ p.n > MaxPortNumber)

\* the command function returned, or called os.Exit(code)
Ran(f, code) == cli' = [cli EXCEPT !.pc = "done", !.ran = f, !.exit = code]

\* a command that ends with the error of the store call, if any
RanStore(f) == cli' = [cli EXCEPT !.pc = "done", !.ran = f, !.exit = IF lastOp'.err THEN 1 ELSE 0]

\* cmdStart: the store is opened, the system mapping is ensured (a failure is
\* only logged), everything is started and the function waits for a signal.
\* The started goroutines are the subject of the other specifications.
CmdStart ==
    /\ cfg' = EnsureDefaultMapping(cfg)
    /\ \E o \in SaveOutcomes :
          /\ CanSave(o)
          /\ disk' = Save(cfg', disk, o)
          /\ saveFails' = IF o = "ok" THEN saveFails ELSE saveFails + 1
    /\ UNCHANGED <<expected, lastOp>>
    /\ cli' = [cli EXCEPT !.pc = "serving", !.ran = "cmdStart", !.started = StartedByStart]

\* cmdScanRange(os.Args[2:])
CmdScanRange(a) ==
    IF a[1] = "list" THEN Ran("cmdScanRange", 0) /\ UNCHANGED cfgVars
    ELSE IF a[1] \notin {"add", "remove"} \/ Len(a) < 2
    THEN Ran("cmdScanRange", 1) /\ UNCHANGED cfgVars
    ELSE LET p == ScanTwo(a[2]) IN
         IF ~RangeAccepted(p) THEN Ran("parseScanRange", 1) /\ UNCHANGED cfgVars
         ELSE /\ IF a[1] = "add" THEN AddScanRange(ScanRange(p.start, p.end))
                 ELSE RemoveScanRange(ScanRange(p.start, p.end))
              /\ RanStore("cmdScanRange")

\* cmdAddPort(os.Args[2:]), without the flags name and path
CmdAddPort(a) ==
    IF Len(a) < 1 \/ ~PortAccepted(ScanInt(a[1]))
    THEN Ran("cmdAddPort", 1) /\ UNCHANGED cfgVars
    ELSE AddManualPort(ManualPort(ScanInt(a[1]).n, "")) /\ RanStore("cmdAddPort")

\* cmdRemovePort(os.Args[2])
CmdRemovePort(t) ==
    IF ~ScanInt(t).ok THEN Ran("cmdRemovePort", 1) /\ UNCHANGED cfgVars
    ELSE RemoveManualPort(ScanInt(t).n) /\ RanStore("cmdRemovePort")

\* the commands that only talk to a running dashboard over HTTP; none runs
\* here, so they end with "is portgate running?"
HttpCommands == {"add", "remove", "list", "status"}

\* main: the switch on os.Args[1], and the command it calls
Main ==
    /\ cli.pc = "ready"
    /\ LET a == cli.args IN
       IF Len(a) < 1 THEN Ran("cmdHelp", 0) /\ UNCHANGED cfgVars
       ELSE IF a[1] = "start" THEN CmdStart
       ELSE IF a[1] \in HttpCommands
       THEN Ran(IF a[1] = "add" THEN "cmdAdd" ELSE IF a[1] = "remove" THEN "cmdRemove"
                ELSE IF a[1] = "list" THEN "cmdList" ELSE "cmdStatus", 1)
            /\ UNCHANGED cfgVars
       ELSE IF a[1] = "scan-range"
       THEN IF Len(a) < 2 THEN Ran("main", 1) /\ UNCHANGED cfgVars
            ELSE CmdScanRange(Tail(a))
       ELSE IF a[1] = "add-port" THEN CmdAddPort(Tail(a))
       ELSE IF a[1] = "remove-port"
       THEN IF Len(a) < 2 THEN Ran("main", 1) /\ UNCHANGED cfgVars
            ELSE CmdRemovePort(a[2])
       ELSE IF a[1] \in {"version", "--version", "-v"}
       THEN Ran("cmdVersion", 0) /\ UNCHANGED cfgVars
       ELSE IF a[1] \in {"help", "--help", "-h"}
       THEN Ran("cmdHelp", 0) /\ UNCHANGED cfgVars
       ELSE Ran("cmdHelp", 1) /\ UNCHANGED cfgVars
    /\ UNCHANGED <<envVars, scanVars, hubVars, wsVars, apiVars, proxyVars, saveVars, readVars, resVars>>

(***************************************************************************)
(* Dashboard handler: /api/ports and /api/scan-ranges                      *)
(***************************************************************************)
\* POST /api/ports: if req.Port < 1 || req.Port > 65535
PortRefused(port) == port < 1 \/ port > MaxPortNumber

\* a plausible slip: the test of the lower bound is left out
RangeRefusedNoLow(start, end) == end > MaxPortNumber \/ start > end

\* POST /api/scan-ranges: if req.Start < 1 || req.End > 65535 || req.Start > req.End
RangeRefused(start, end) == start < 1 \/ end > MaxPortNumber \/ start > end

\* what the handlers of these two paths leave alone
PortsApiFrame ==
    /\ UNCHANGED <<ports, clients, send, closed, broadcast, buPc, buMsg, nextSeq>>
    /\ UNCHANGED <<envVars, scanVars, wsVars, proxyVars, saveVars, readVars, resVars, cliVars>>

\* POST /api/ports with a body that decodes to {port, name, path}
PostPort(port, name, path) ==
    /\ apiCalls < MaxRequests
    /\ apiCalls' = apiCalls + 1
    /\ apiReq' = [method |-> "POST", path |-> "/api/ports", start |-> port, end |-> port]
    /\ IF PortRefused(port)
       THEN apiReply' = 400 /\ UNCHANGED cfgVars
       ELSE /\ AddManualPort(ManualPortAt(port, name, path))
            /\ apiReply' = IF lastOp'.err THEN 500 ELSE 201
    /\ PortsApiFrame

\* DELETE /api/ports?port=t
DeletePort(t) ==
    /\ apiCalls < MaxRequests
    /\ apiCalls' = apiCalls + 1
    /\ apiReq' = [method |-> "DELETE", path |-> "/api/ports",
                  start |-> ScanInt(t).n, end |-> ScanInt(t).n]
    /\ IF t = <<>> \/ ~ScanInt(t).ok
       THEN apiReply' = 400 /\ UNCHANGED cfgVars
       ELSE /\ RemoveManualPort(ScanInt(t).n)
            /\ apiReply' = IF lastOp'.err THEN 500 ELSE 204
    /\ PortsApiFrame

\* POST /api/scan-ranges with a body that decodes to {start, end}
PostScanRange(start, end) ==
    /\ apiCalls < MaxRequests
    /\ apiCalls' = apiCalls + 1
    /\ apiReq' = [method |-> "POST", path |-> "/api/scan-ranges", start |-> start, end |-> end]
    /\ IF RangeRefused(start, end)
       THEN apiReply' = 400 /\ UNCHANGED cfgVars
       ELSE /\ AddScanRange(ScanRange(start, end))
            /\ apiReply' = IF lastOp'.err THEN 500 ELSE 201
    /\ PortsApiFrame

\* DELETE /api/scan-ranges?start=ts&end=te
DeleteScanRange(ts, te) ==
    /\ apiCalls < MaxRequests
    /\ apiCalls' = apiCalls + 1
    /\ apiReq' = [method |-> "DELETE", path |-> "/api/scan-ranges",
                  start |-> ScanInt(ts).n, end |-> ScanInt(te).n]
    /\ IF ts = <<>> \/ te = <<>> \/ ~ScanInt(ts).ok \/ ~ScanInt(te).ok
       THEN apiReply' = 400 /\ UNCHANGED cfgVars
       ELSE /\ RemoveScanRange(ScanRange(ScanInt(ts).n, ScanInt(te).n))
            /\ apiReply' = IF lastOp'.err THEN 500 ELSE 204
    /\ PortsApiFrame

(***************************************************************************)
(* Initial states                                                          *)
(***************************************************************************)
CfgInit ==
    /\ cfg = EmptyConfig
    /\ disk = EmptyConfig
    /\ saveFails = 0
    /\ expected = [d \in Domains |-> NoMapping]
    /\ lastOp = NoOp

\* no listener changes are modelled
EnvOff ==
    /\ open = {}
    /\ http = [p \in Ports |-> HttpFail]
    /\ envChanges = 0

NoProbe == [ranges |-> <<>>, sweep |-> {}, manual |-> {}, mps |-> <<>>]

\* the scanner's locals at a given position of Run
ScanAt(pc) ==
    /\ scPc = pc
    /\ scPorts = <<>>
    /\ scanned = {}
    /\ cycle = 0
    /\ cancelled = FALSE
    /\ probe = NoProbe
    /\ steady = {}
    /\ results = <<>>
    /\ setLog = <<>>

\* NewHub: no ports, no clients, empty channels; no broadcastUpdate under way
HubInit ==
    /\ ports = <<>>
    /\ clients = {}
    /\ send = [c \in Clients |-> <<>>]
    /\ closed = [c \in Clients |-> FALSE]
    /\ broadcast = <<>>
    /\ buPc = [c \in Callers |-> "idle"]
    /\ buMsg = [c \in Callers |-> NoMessage]
    /\ nextSeq = 0
    /\ apiCalls = 0

\* no mutation is under way; the config file holds the configuration c and
\* no temporary file is left
FsHolding(c) == [inodes |-> <<Serialized(c)>>, tmp |-> 0, live |-> 1]

SaveInit ==
    /\ saver = [s \in Savers |-> SaverIdle]
    /\ fs = FsHolding(EmptyConfig)

\* nobody holds a result of GetPorts
ReadInit == got = NoSlice

\* no table search has been asked for
ResInit == res = NoLookup

\* the command has not been invoked
CliInit == cli = NoRun

\* no request has been served
ApiInit ==
    /\ apiReq = [method |-> "", domain |-> <<>>, port |-> 0]
    /\ apiReply = 0

\* no request has reached the proxy
NoRequest == [Host |-> <<>>, Connection |-> <<>>, Upgrade |-> <<>>]
NoForward == [addr |-> "", Host |-> <<>>, relayed |-> FALSE]

ProxyIdle ==
    /\ pxReq = NoRequest
    /\ pxPc = "idle"
    /\ pxSub = ""
    /\ pxPort = 0
    /\ pxReply = 0
    /\ pxFwd = NoForward
    /\ clientConn = "server"
    /\ backendConn = "none"
    /\ cPeer = "up"
    /\ bPeer = "up"
    /\ cSent = <<>> /\ cWire = <<>> /\ cBuf = <<>> /\ upBuf = <<>>
    /\ upPc = "off"
    /\ toBackend = <<>>
    /\ bSent = <<>> /\ bWire = <<>> /\ downBuf = <<>>
    /\ downPc = "off"
    /\ toClient = <<>>
    /\ firstDone = ""

ProxyInit ==
    /\ pxSuffix = <<"localhost">>
    /\ ProxyIdle

\* no subscriber has connected
WsInit ==
    /\ wsPc = [c \in Clients |-> "idle"]
    /\ wsMsg = [c \in Clients |-> NoMessage]
    /\ rdPc = [c \in Clients |-> "off"]
    /\ wrPc = [c \in Clients |-> "off"]
    /\ recv = [c \in Clients |-> <<>>]
    /\ firstEnq = [c \in Clients |-> "none"]
    /\ panicked = FALSE

(***************************************************************************)
(* SpecMappings: any sequence of AddMapping / RemoveMapping calls          *)
(***************************************************************************)
InitMappings == CfgInit /\ EnvOff /\ ScanAt("off") /\ HubInit /\ WsInit /\ ApiInit /\ ProxyInit /\ SaveInit /\ ReadInit /\ ResInit /\ CliInit

NextMappings ==
    \/ /\ \E d \in Domains, p \in TargetPorts : AddMapping(DomainMapping(d, p, FALSE))
       /\ UNCHANGED <<envVars, scanVars, hubVars, wsVars, apiVars, proxyVars, saveVars, readVars, resVars, cliVars>>
    \/ /\ \E d \in Domains : RemoveMapping(d)
       /\ UNCHANGED <<envVars, scanVars, hubVars, wsVars, apiVars, proxyVars, saveVars, readVars, resVars, cliVars>>

SpecMappings == InitMappings /\ [][NextMappings]_vars

(***************************************************************************)
(* SpecRanges: any sequence of AddScanRange / RemoveScanRange calls        *)
(***************************************************************************)
InitRanges == CfgInit /\ EnvOff /\ ScanAt("off") /\ HubInit /\ WsInit /\ ApiInit /\ ProxyInit /\ SaveInit /\ ReadInit /\ ResInit /\ CliInit

NextRanges ==
    \/ /\ \E sr \in ValidRanges : AddScanRange(sr)
       /\ UNCHANGED <<envVars, scanVars, hubVars, wsVars, apiVars, proxyVars, saveVars, readVars, resVars, cliVars>>
    \/ /\ \E sr \in ValidRanges : RemoveScanRange(sr)
       /\ UNCHANGED <<envVars, scanVars, hubVars, wsVars, apiVars, proxyVars, saveVars, readVars, resVars, cliVars>>

SpecRanges == InitRanges /\ [][NextRanges]_vars

(***************************************************************************)
(* SpecScan: Scanner.Run against a Hub without subscribers, for every      *)
(* stored configuration of the bounds below and every set of listeners     *)
(***************************************************************************)
\* the longest scan-range list and manual-port list SpecScan starts from
MaxScanCfg == 2
MaxManualCfg == 2

\* the lists AddScanRange / RemoveScanRange can leave: no pair twice
ScanCfgs ==
    {<<>>} \cup {<<a>> : a \in ValidRanges}
           \cup {q \in {<<a, b>> : a \in ValidRanges, b \in ValidRanges} : q[1] # q[2]}

\* the lists AddManualPort / RemoveManualPort can leave: no port twice
\* (port 1 is registered with a name, the others without)
ManualOf(p) == ManualPort(p, IF p = 1 THEN "db" ELSE "")
ManualCfgs ==
    {<<>>} \cup {<<ManualOf(a)>> : a \in Ports}
           \cup {q \in {<<ManualOf(a), ManualOf(b)>> : a \in Ports, b \in Ports} :
                     q[1].Port # q[2].Port}

\* GET / answers with a title on port 1, fails on port 2, and answers with
\* a Server header only on the other ports
HttpEnv ==
    [p \in Ports |->
        IF p = 1 THEN HttpResult(FALSE, FALSE, TRUE, "T", "S")
        ELSE IF p = 2 THEN HttpFail
        ELSE HttpResult(FALSE, FALSE, FALSE, "", "S")]

InitScan ==
    /\ \E rs \in ScanCfgs, mps \in ManualCfgs :
          /\ Len(rs) <= MaxScanCfg
          /\ Len(mps) <= MaxManualCfg
          /\ cfg = [EmptyConfig EXCEPT !.ScanRanges = rs, !.ManualPorts = mps]
    /\ disk = cfg
    /\ saveFails = 0
    /\ expected = [d \in Domains |-> NoMapping]
    /\ lastOp = NoOp
    /\ open \in SUBSET Ports
    /\ http = HttpEnv
    /\ envChanges = 0
    /\ ScanAt("scan")
    /\ HubInit
    /\ WsInit
    /\ ApiInit /\ ProxyInit /\ SaveInit /\ ReadInit /\ ResInit /\ CliInit

NextScan ==
    \/ ScanSweep
    \/ ScanManual
    \/ ScannerSetPorts
    \/ BuildPorts("scanner")
    \/ BuildMappings("scanner")
    \/ Enqueue("scanner")
    \/ HubBroadcast
    \/ Tick
    \/ Cancel
    \/ Return
    \/ \E p \in Ports : EnvChange(p)

SpecScan == InitScan /\ [][NextScan]_vars

(***************************************************************************)
(* SpecHub: the running program.  Scanner.Run delivers its snapshots      *)
(* through SetPorts, the dashboard API changes mappings, subscribers       *)
(* connect through /ws, stall, disconnect; the Hub loop serves them.       *)
(***************************************************************************)
\* the stored configuration: the default ranges and one named manual port
HubConfig == [EmptyConfig EXCEPT !.ManualPorts = <<ManualPort(MaxPort, "db")>>]

InitHub ==
    /\ cfg = HubConfig
    /\ disk = cfg
    /\ saveFails = 0
    /\ expected = [d \in Domains |-> NoMapping]
    /\ lastOp = NoOp
    /\ open = {1}
    /\ http = HttpEnv
    /\ envChanges = 0
    /\ ScanAt("scan")
    /\ HubInit
    /\ WsInit
    /\ ApiInit /\ ProxyInit /\ SaveInit /\ ReadInit /\ ResInit /\ CliInit

\* the subscribers that connect in SpecHub
HubClients == {"c1"}

NextHub ==
    \/ ScanSweep
    \/ ScanManual
    \/ ScannerSetPorts
    \/ Tick
    \/ \E c \in Callers : BuildPorts(c)
    \/ \E c \in Callers : BuildMappings(c)
    \/ \E c \in Callers : Enqueue(c)
    \/ ApiAddMapping("myapp", 3000)
    \/ ApiRemoveMapping("myapp")
    \/ \E c \in HubClients : WsConnect(c)
    \/ \E c \in Clients : HubRegister(c)
    \/ \E c \in Clients : WsBuild(c)
    \/ \E c \in Clients : WsSend(c)
    \/ \E c \in Clients : ReadError(c)
    \/ \E c \in Clients : HubUnregister(c)
    \/ \E c \in Clients : WritePump(c)
    \/ \E c \in Clients : WritePumpExit(c)
    \/ HubBroadcast

SpecHub == InitHub /\ [][NextHub]_vars

(***************************************************************************)
(* SpecLive: SpecHub over one scan cycle, where the Hub loop and the       *)
(* callers of broadcastUpdate run whenever they can, and the subscriber,   *)
(* its handler and its pumps run or stop as they please                    *)
(***************************************************************************)
NextLive ==
    \/ ScanSweep
    \/ ScanManual
    \/ ScannerSetPorts
    \/ \E c \in Callers : BuildPorts(c)
    \/ \E c \in Callers : BuildMappings(c)
    \/ \E c \in Callers : Enqueue(c)
    \/ ApiAddMapping("myapp", 3000)
    \/ ApiRemoveMapping("myapp")
    \/ \E c \in HubClients : WsConnect(c)
    \/ \E c \in Clients : HubRegister(c)
    \/ \E c \in Clients : WsBuild(c)
    \/ \E c \in Clients : WsSend(c)
    \/ \E c \in Clients : ReadError(c)
    \/ \E c \in Clients : HubUnregister(c)
    \/ \E c \in Clients : WritePump(c)
    \/ \E c \in Clients : WritePumpExit(c)
    \/ HubBroadcast

\* Go schedules every goroutine that can run, and a select takes each ready
\* case in the end
LiveFairness ==
    /\ \A c \in Callers : WF_vars(BuildPorts(c))
    /\ \A c \in Callers : WF_vars(BuildMappings(c))
    /\ \A c \in Callers : WF_vars(Enqueue(c))
    /\ \A c \in Clients : WF_vars(HubRegister(c))
    /\ \A c \in Clients : WF_vars(HubUnregister(c))
    /\ WF_vars(HubBroadcast)

SpecLive == InitHub /\ [][NextLive]_vars /\ LiveFairness

(***************************************************************************)
(* SpecFan: two subscribers are registered and each has its initial-state  *)
(* message queued when the first scan begins; broadcasts then fan out.     *)
(* SpecStall is the same with subscriber c1 stalled (its queue is never    *)
(* consumed) and subscriber c2 consumed under fair scheduling.             *)
(***************************************************************************)
InitMsg == Message("init", <<>>, <<>>, 0)

InitFan ==
    /\ cfg = HubConfig
    /\ disk = cfg
    /\ saveFails = 0
    /\ expected = [d \in Domains |-> NoMapping]
    /\ lastOp = NoOp
    /\ open = {1}
    /\ http = HttpEnv
    /\ envChanges = 0
    /\ ScanAt("scan")
    /\ ports = <<>>
    /\ clients = Clients
    /\ send = [c \in Clients |-> <<InitMsg>>]
    /\ closed = [c \in Clients |-> FALSE]
    /\ broadcast = <<>>
    /\ buPc = [c \in Callers |-> "idle"]
    /\ buMsg = [c \in Callers |-> NoMessage]
    /\ nextSeq = 0
    /\ apiCalls = 0
    /\ wsPc = [c \in Clients |-> "done"]
    /\ wsMsg = [c \in Clients |-> InitMsg]
    /\ rdPc = [c \in Clients |-> "reading"]
    /\ wrPc = [c \in Clients |-> "running"]
    /\ recv = [c \in Clients |-> <<>>]
    /\ firstEnq = [c \in Clients |-> "init"]
    /\ panicked = FALSE
    /\ ApiInit /\ ProxyInit /\ SaveInit /\ ReadInit /\ ResInit /\ CliInit

\* the scanner, the API and the Hub loop
FanCore ==
    \/ ScanSweep
    \/ ScanManual
    \/ ScannerSetPorts
    \/ Tick
    \/ \E c \in Callers : BuildPorts(c)
    \/ \E c \in Callers : BuildMappings(c)
    \/ \E c \in Callers : Enqueue(c)
    \/ ApiAddMapping("myapp", 3000)
    \/ HubBroadcast

NextFan ==
    \/ FanCore
    \/ \E c \in Clients : WritePump(c)
    \/ \E c \in Clients : WritePumpExit(c)
    \/ \E c \in Clients : ReadError(c)
    \/ \E c \in Clients : HubUnregister(c)

SpecFan == InitFan /\ [][NextFan]_vars

Stalled == "c1"
Active == "c2"

NextStall ==
    \/ FanCore
    \/ WritePump(Active)

\* every goroutine that can run does run: the scanner and its ticker, the
\* callers of broadcastUpdate, the Hub loop and the active subscriber's pump
StallFairness ==
    /\ WF_vars(ScanSweep)
    /\ WF_vars(ScanManual)
    /\ WF_vars(ScannerSetPorts)
    /\ WF_vars(Tick)
    /\ \A c \in Callers : WF_vars(BuildPorts(c))
    /\ \A c \in Callers : WF_vars(BuildMappings(c))
    /\ \A c \in Callers : WF_vars(Enqueue(c))
    /\ WF_vars(HubBroadcast)
    /\ WF_vars(WritePump(Active))

SpecStall == InitFan /\ [][NextStall]_vars /\ StallFairness

(***************************************************************************)
(* SpecApi: the dashboard serves /api/mappings requests one after another, *)
(* each successful one followed by its broadcastUpdate                     *)
(***************************************************************************)
\* the request bodies' domain fields and the DELETE query values
PostDomains ==
    { <<>>, <<"api">>, <<"Api", ".", "localhost">>, <<"portgate">>,
      <<" ", "Portgate", ".", "localhost", " ">>, <<"portgate", ".", "test">> }
PostPorts == {0} \cup TargetPorts
DeleteDomains == { <<>>, <<"api">>, <<"portgate">>, <<"Portgate">>, <<"portgate", ".", "test">> }

\* cmdStart: NewConfigStore, then EnsureDefaultMapping; the store may already
\* hold a user mapping
InitApi ==
    /\ cfg \in { EnsureDefaultMapping(EmptyConfig),
                 EnsureDefaultMapping([EmptyConfig EXCEPT
                     !.Mappings = <<DomainMapping("api", 3000, FALSE)>>]) }
    /\ disk = cfg
    /\ saveFails = 0
    /\ expected = [d \in Domains |-> NoMapping]
    /\ lastOp = NoOp
    /\ EnvOff
    /\ ScanAt("off")
    /\ HubInit
    /\ WsInit
    /\ ApiInit /\ ProxyInit /\ SaveInit /\ ReadInit /\ ResInit /\ CliInit

NextApi ==
    \/ \E raw \in PostDomains, port \in PostPorts : PostMapping(raw, port)
    \/ \E raw \in DeleteDomains : DeleteMapping(raw)
    \/ BuildPorts("api")
    \/ BuildMappings("api")
    \/ Enqueue("api")
    \/ HubBroadcast

SpecApi == InitApi /\ [][NextApi]_vars

(***************************************************************************)
(* SpecRun: Scanner.Run with one scan range and one manual port, the Hub   *)
(* loop taking the broadcasts, under fair scheduling: the goroutines run   *)
(* when they can, and the select of Run, which picks among its ready cases *)
(* at random, does not pass over a ready ctx.Done() for ever               *)
(***************************************************************************)
InitRun ==
    /\ cfg = [EmptyConfig EXCEPT !.ScanRanges = <<ScanRange(1, 2)>>,
                                 !.ManualPorts = <<ManualOf(MaxPort)>>]
    /\ disk = cfg
    /\ saveFails = 0
    /\ expected = [d \in Domains |-> NoMapping]
    /\ lastOp = NoOp
    /\ open \in SUBSET Ports
    /\ http = HttpEnv
    /\ envChanges = 0
    /\ ScanAt("scan")
    /\ HubInit
    /\ WsInit
    /\ ApiInit /\ ProxyInit /\ SaveInit /\ ReadInit /\ ResInit /\ CliInit

RunFairness ==
    /\ WF_vars(ScanSweep)
    /\ WF_vars(ScanManual)
    /\ WF_vars(ScannerSetPorts)
    /\ WF_vars(BuildPorts("scanner"))
    /\ WF_vars(BuildMappings("scanner"))
    /\ WF_vars(Enqueue("scanner"))
    /\ WF_vars(HubBroadcast)
    /\ SF_vars(Return)

SpecRun == InitRun /\ [][NextScan]_vars /\ RunFairness

(***************************************************************************)
(* SpecSave: two callers each make one ConfigStore mutation at the same    *)
(* time (two API requests are served by two goroutines); the file holds    *)
(* the stored configuration at the start                                   *)
(***************************************************************************)
SaveConfigs ==
    { EmptyConfig,
      [EmptyConfig EXCEPT !.Mappings = <<DomainMapping("api", 4000, FALSE)>>,
                          !.ManualPorts = <<ManualPort(1, "")>>] }

InitSave ==
    /\ cfg \in SaveConfigs
    /\ disk = cfg
    /\ saveFails = 0
    /\ expected = [d \in Domains |-> NoMapping]
    /\ lastOp = NoOp
    /\ EnvOff
    /\ ScanAt("off")
    /\ HubInit
    /\ WsInit
    /\ ApiInit /\ ProxyInit
    /\ saver = [s \in Savers |-> SaverIdle]
    /\ fs = FsHolding(cfg)
    /\ ReadInit /\ ResInit /\ CliInit

NextSave ==
    \/ \E s \in Savers, call \in MutationCalls : SaveMutate(s, call)
    \/ \E s \in Savers : SaveMarshal(s)
    \/ \E s \in Savers : SaveMkdir(s)
    \/ \E s \in Savers : SaveOpen(s)
    \/ \E s \in Savers : SaveWrite(s)
    \/ \E s \in Savers : SaveRename(s)

SpecSave == InitSave /\ [][NextSave]_vars

(***************************************************************************)
(* SpecResolve: the socket-table search on every table of two rows         *)
(***************************************************************************)
\* the ports asked for and listened on: 80, 8080, and 20480 = 0x5000, which
\* is 80 = 0x0050 with its two bytes swapped
LookupPorts == {80, 8080, 20480}

\* TCP_ESTABLISHED = 1, TCP_LISTEN = 10 (printed "0A")
TcpStates == {1, 10}

\* the kernel's %0wX
RECURSIVE HexText(_, _)
HexText(n, w) == IF w = 0 THEN <<>>
                 ELSE Append(HexText(n \div 16, w - 1), HexUpper[(n % 16) + 1])

Zeros8 == <<"0", "0", "0", "0", "0", "0", "0", "0">>

\* a row of /proc/net/tcp: the local and remote port, the state, the inode;
\* whole says whether the line was read whole or cut short after the state
UnixRows ==
    [lport : LookupPorts, rport : {0, 80}, st : TcpStates, whole : BOOLEAN]

\* the line the kernel prints for row r, the k-th of the table:
\* sl local_address rem_address st tx_queue:rx_queue tr:tm->when retrnsmt
\* uid timeout inode
UnixInode(k) == <<"7">> \o Itoa(k)

UnixLine(r, k) ==
    Cat(<<<<Sp, Sp, Sp>>, Itoa(k - 1), <<":", Sp>>,
          Zeros8, <<":">>, HexText(r.lport, 4), <<Sp>>,
          Zeros8, <<":">>, HexText(r.rport, 4), <<Sp>>,
          HexText(r.st, 2)>>)
    \o (IF r.whole
        THEN Cat(<<<<Sp>>, Zeros8, <<":">>, Zeros8, <<Sp>>,
                   <<"0", "0", ":">>, Zeros8, <<Sp>>, Zeros8, <<Sp>>,
                   <<"1", "0", "0", "0", Sp, "0", Sp>>, UnixInode(k)>>)
        ELSE <<>>)

\* the header line, each of its words written as one character
UnixHeader ==
    <<Sp, Sp, "sl", Sp, Sp, "local_address", Sp, "rem_address", Sp, Sp, Sp, "st", Sp,
      "tx_queue", Sp, "rx_queue", Sp, "tr", Sp, "tm->when", Sp, "retrnsmt", Sp, Sp, Sp,
      "uid", Sp, Sp, "timeout", Sp, "inode">>

UnixTable(env) == <<UnixHeader>> \o [k \in 1..Len(env) |-> UnixLine(env[k], k + 1)] \o <<<<>>>>

\* a row of netstat -ano: TCP rows have a state, UDP rows have none
NetstatRows ==
    [proto : {"TCP"}, v6 : BOOLEAN, lport : {80, 8080}, fport : {0, 80},
     state : {"LISTENING", "ESTABLISHED"}]
        \cup [proto : {"UDP"}, v6 : {FALSE}, lport : {80, 8080}, fport : {0},
              state : {""}]

Established == <<"E", "S", "T", "A", "B", "L", "I", "S", "H", "E", "D">>
AnyV4 == <<"0", ".", "0", ".", "0", ".", "0">>
AnyV6 == <<"[", ":", ":", "]">>

NetstatPid(k) == k + 70

\* the line netstat prints for row r, the k-th of the table, CR at its end
NetstatLine(r, k) ==
    LET host == IF r.v6 THEN AnyV6 ELSE AnyV4 IN
    IF r.proto = "TCP"
    THEN Cat(<<<<Sp, Sp, "T", "C", "P", Sp, Sp>>, host, <<":">>, Itoa(r.lport), <<Sp, Sp>>,
               host, <<":">>, Itoa(r.fport), <<Sp, Sp>>,
               IF r.state = "LISTENING" THEN Listening ELSE Established,
               <<Sp, Sp>>, Itoa(NetstatPid(k)), <<Cr>>>>)
    ELSE Cat(<<<<Sp, Sp, "U", "D", "P", Sp, Sp>>, host, <<":">>, Itoa(r.lport), <<Sp, Sp>>,
               <<"*", ":", "*", Sp, Sp>>, Itoa(NetstatPid(k)), <<Cr>>>>)

NetstatTable(env) == [k \in 1..Len(env) |-> NetstatLine(env[k], k)] \o <<<<>>>>

InitResolve ==
    /\ CfgInit /\ EnvOff /\ ScanAt("off") /\ HubInit /\ WsInit /\ ApiInit /\ ProxyInit
    /\ SaveInit /\ ReadInit /\ CliInit
    /\ \E port \in LookupPorts :
          \/ \E a \in UnixRows, b \in UnixRows :
                res = [os |-> "unix", env |-> <<a, b>>, rows |-> UnixTable(<<a, b>>),
                       port |-> port, pc |-> "ready", out |-> <<>>]
          \/ \E a \in NetstatRows, b \in NetstatRows :
                res = [os |-> "windows", env |-> <<a, b>>, rows |-> NetstatTable(<<a, b>>),
                       port |-> port, pc |-> "ready", out |-> <<>>]

NextResolve ==
    \/ ResolveUnix
    \/ ResolveWindows

SpecResolve == InitResolve /\ [][NextResolve]_vars

(***************************************************************************)
(* findExeByPort on the machine the scanner probes: every listener has a   *)
(* LISTEN row in /proc/net/tcp and a process that holds its socket         *)
(***************************************************************************)
\* the listeners, in the order of their rows
RECURSIVE RowsOf(_)
RowsOf(o) ==
    IF o = {} THEN <<>>
    ELSE LET p == CHOOSE x \in o : \A y \in o : x <= y
         IN  <<[lport |-> p, rport |-> 0, st |-> 10, whole |-> TRUE]>> \o RowsOf(o \ {p})

\* the processes: the one listening on port p has PID p, holds the socket of
\* p's row and runs ExeOf[p]; the fd directory of the process of port
\* MaxPort belongs to another user and cannot be read
ExeOf == [p \in Ports |-> IF p = 1 THEN "/srv/a" ELSE IF p = 2 THEN "/srv/b" ELSE "/srv/c"]
FdReadable(pid) == pid # MaxPort

\* findPIDByInode: the process with a readable fd directory holding a link to
\* socket:[inode], or 0
findPIDByInode(o, inode) ==
    LET rows == RowsOf(o)
        holders == { rows[k].lport : k \in { j \in 1..Len(rows) : UnixInode(j + 1) = inode } }
        seen == { pid \in holders : FdReadable(pid) }
    IN  IF seen = {} THEN 0 ELSE CHOOSE pid \in seen : TRUE

\* findExeByPort: inode of the LISTEN row, its process, the link /proc/<pid>/exe;
\* "" when a step fails
findExeByPort(o, port) ==
    LET inode == findInodeInFile(UnixTable(RowsOf(o)), port) IN
    IF inode = <<>> THEN ""
    ELSE LET pid == findPIDByInode(o, inode) IN
         IF pid = 0 THEN "" ELSE ExeOf[pid]

(***************************************************************************)
(* SpecProbe: one scan() over every answer GET / can give, for a swept     *)
(* port (1) and a manual port (2) registered with or without a name        *)
(***************************************************************************)
InitProbe ==
    /\ \E n \in Names :
          cfg = [EmptyConfig EXCEPT !.ScanRanges = <<ScanRange(1, 1)>>,
                                    !.ManualPorts = <<ManualPort(2, n)>>]
    /\ disk = cfg
    /\ saveFails = 0
    /\ expected = [d \in Domains |-> NoMapping]
    /\ lastOp = NoOp
    /\ open \in SUBSET {1, 2}
    /\ http \in {h \in [Ports -> HttpResults] : h[MaxPort] = HttpFail}
    /\ envChanges = 0
    /\ ScanAt("scan")
    /\ HubInit
    /\ WsInit
    /\ ApiInit /\ ProxyInit /\ SaveInit /\ ReadInit /\ ResInit /\ CliInit

NextProbe ==
    \/ ScanSweep
    \/ ScanManual
    \/ ScannerSetPorts

SpecProbe == InitProbe /\ [][NextProbe]_vars

(***************************************************************************)
(* SpecMain: one run of the command, for every command line of up to three *)
(* arguments, against a stored configuration                               *)
(***************************************************************************)
RangeTexts ==
    { <<"1", "-", "2">>, <<"2", "-", "1">>, <<"0", "-", "2">>, <<"-", "1", "-", "2">>,
      <<"6", "5", "5", "3", "5", "-", "6", "5", "5", "3", "5">>,
      <<"1", "-", "6", "5", "5", "3", "6">>, <<"1", "-", "2", "z">>,
      <<"7">>, <<"x">>, <<"1", "-">> }

PortTexts ==
    { <<"0">>, <<"1">>, <<"2">>, <<"6", "5", "5", "3", "5">>, <<"6", "5", "5", "3", "6">>,
      <<"-", "1">>, <<"2", "x">>, <<"x">> }

CommandLines ==
    {<<>>}
        \cup { <<w>> : w \in {"start", "add", "remove", "list", "status", "scan-range",
                              "add-port", "remove-port", "version", "--version", "-v",
                              "update-now", "help", "--help", "-h"} }
        \cup { <<"scan-range", "list">>, <<"scan-range", "add">>, <<"scan-range", "drop">> }
        \cup { <<"scan-range", sub, t>> : sub \in {"add", "remove"}, t \in RangeTexts }
        \cup { <<w, t>> : w \in {"add-port", "remove-port"}, t \in PortTexts }

\* the configuration file the command finds
StoredConfigs ==
    { EmptyConfig,
      [EmptyConfig EXCEPT !.ScanRanges = <<ScanRange(1, 2)>>,
                          !.ManualPorts = <<ManualPort(1, "db")>>],
      [EmptyConfig EXCEPT !.ScanRanges = <<ScanRange(1, 2), ScanRange(MaxPortNumber, MaxPortNumber)>>,
                          !.ManualPorts = <<ManualPort(2, ""), ManualPort(MaxPortNumber, "top")>>] }

InitMain ==
    /\ cfg \in StoredConfigs
    /\ disk = cfg
    /\ saveFails = 0
    /\ expected = [d \in Domains |-> NoMapping]
    /\ lastOp = NoOp
    /\ EnvOff /\ ScanAt("off") /\ HubInit /\ WsInit /\ ApiInit /\ ProxyInit
    /\ SaveInit /\ ReadInit /\ ResInit
    /\ \E a \in CommandLines : cli = [NoRun EXCEPT !.args = a, !.pc = "ready"]

NextMain == Main

SpecMain == InitMain /\ [][NextMain]_vars

(***************************************************************************)
(* SpecServe: a run of the command; after portgate start the dashboard     *)
(* answers requests to /api/ports and /api/scan-ranges                     *)
(***************************************************************************)
\* the numbers in the request bodies
BodyNumbers == {-1, 0, 1, 2, MaxPortNumber, MaxPortNumber + 1}
Paths == {"", "/srv/a"}
QueryTexts == { <<>>, <<"1">>, <<"2">>, <<"6", "5", "5", "3", "5">>, <<"x">> }

\* a server run (portgate start) or one other command
InitServe ==
    /\ cfg \in StoredConfigs
    /\ disk = cfg
    /\ saveFails = 0
    /\ expected = [d \in Domains |-> NoMapping]
    /\ lastOp = NoOp
    /\ EnvOff /\ ScanAt("off") /\ HubInit /\ WsInit /\ ApiInit /\ ProxyInit
    /\ SaveInit /\ ReadInit /\ ResInit
    /\ \E a \in CommandLines : cli = [NoRun EXCEPT !.args = a, !.pc = "ready"]

NextServe ==
    \/ Main
    \/ cli.pc = "serving" /\ \E p \in BodyNumbers, n \in Names, path \in Paths : PostPort(p, n, path)
    \/ cli.pc = "serving" /\ \E t \in QueryTexts : DeletePort(t)
    \/ cli.pc = "serving" /\ \E st \in BodyNumbers, e \in BodyNumbers : PostScanRange(st, e)
    \/ cli.pc = "serving" /\ \E ts \in QueryTexts, te \in QueryTexts : DeleteScanRange(ts, te)

SpecServe == InitServe /\ [][NextServe]_vars

(***************************************************************************)
(* SpecPost: SpecApi with every kind of number in the port field of the    *)
(* POST body                                                               *)
(***************************************************************************)
BodyPorts == {-1, 0, 3000, MaxPortNumber, MaxPortNumber + 1}

NextPost ==
    \/ \E raw \in PostDomains, port \in BodyPorts : PostMapping(raw, port)
    \/ \E raw \in DeleteDomains : DeleteMapping(raw)
    \/ BuildPorts("api")
    \/ BuildMappings("api")
    \/ Enqueue("api")
    \/ HubBroadcast

SpecPost == InitApi /\ [][NextPost]_vars

(***************************************************************************)
(* SpecRead: a caller of Hub.GetPorts changes the slice it got, while      *)
(* SetPorts may replace the held list                                      *)
(***************************************************************************)
Entries == { DiscoveredPort(p, TRUE, 1, "scan") : p \in 1..2 }
                \cup { DiscoveredPort(1, FALSE, 1, "manual") }

HeldLists == {<<>>} \cup {<<a>> : a \in Entries} \cup {<<a, b>> : a \in Entries, b \in Entries}

InitRead ==
    /\ CfgInit /\ EnvOff /\ ScanAt("off") /\ WsInit /\ ApiInit /\ ProxyInit /\ SaveInit /\ ReadInit /\ ResInit /\ CliInit
    /\ ports \in HeldLists
    /\ clients = {}
    /\ send = [c \in Clients |-> <<>>]
    /\ closed = [c \in Clients |-> FALSE]
    /\ broadcast = <<>>
    /\ buPc = [c \in Callers |-> "idle"]
    /\ buMsg = [c \in Callers |-> NoMessage]
    /\ nextSeq = 0
    /\ apiCalls = 0

NextRead ==
    \/ ReaderGet
    \/ \E i \in 1..(MaxHeld + 1), v \in Entries : ReaderOverwrite(i, v)
    \/ \E v \in Entries : ReaderAppend(v)
    \/ \E i \in 1..(MaxHeld + 1) : ReaderRemove(i)
    \/ \E ps \in HeldLists : HubSetPorts(ps)

SpecRead == InitRead /\ [][NextRead]_vars

(***************************************************************************)
(* SpecRoute: one request reaches ProxyHandler while ConfigStore callers   *)
(* add and remove mappings; the two ReverseProxy branches run to their     *)
(* end, the WebSocket branch stops at the call of handleWebSocket          *)
(***************************************************************************)
Suffixes == { <<"localhost">>, <<"test">> }

RouteHosts ==
    { <<"api", ".", "localhost">>, <<"api", ".", "localhost", ":", "8080">>,
      <<"localhost">>, <<"localhost", ":", "8080">>,
      <<"portgate", ".", "localhost">>, <<"portgate", ".", "localhost", ":", "8080">>,
      <<"myapp", ".", "localhost">>, <<"x", ".", "api", ".", "localhost">>,
      <<".", "localhost">>, <<"api", ".", "test">>, <<"api", ".", "test", ":", "8080">>,
      <<"test">>, <<"portgate", ".", "test">>, <<"example", ".", "com">> }

ConnectionValues ==
    { <<>>, <<"keep-alive">>, <<"Upgrade">>, <<"upgrade">>,
      <<"keep-alive", ",", " ", "Upgrade">> }

UpgradeValues == { <<>>, <<"websocket">>, <<"WebSocket">>, <<"h2c">> }

Requests ==
    [Host : RouteHosts, Connection : ConnectionValues, Upgrade : UpgradeValues]

\* the mapping lists the request may find: none, the system mapping beside a
\* user mapping, a user mapping that took the name "portgate"
RouteConfigs ==
    { <<>>,
      <<SystemMapping, DomainMapping("api", 3000, FALSE)>>,
      <<DomainMapping("portgate", 3000, FALSE), DomainMapping("api", 4000, FALSE)>> }

InitRoute ==
    /\ \E ms \in RouteConfigs : cfg = [EmptyConfig EXCEPT !.Mappings = ms]
    /\ disk = cfg
    /\ saveFails = 0
    /\ expected = [d \in Domains |-> NoMapping]
    /\ lastOp = NoOp
    /\ EnvOff
    /\ ScanAt("off")
    /\ HubInit
    /\ WsInit
    /\ ApiInit
    /\ pxSuffix \in Suffixes
    /\ ProxyIdle
    /\ SaveInit /\ ReadInit /\ ResInit /\ CliInit

NextRoute ==
    \/ \E r \in Requests : ProxyServe(r)
    \/ ProxyToDashboard
    \/ BufferedProxy
    \/ /\ \E d \in {"portgate", "api"} : AddMapping(DomainMapping(d, 3000, FALSE))
       /\ UNCHANGED <<envVars, scanVars, hubVars, wsVars, apiVars, proxyVars, saveVars, readVars, resVars, cliVars>>
    \/ /\ \E d \in {"portgate", "api"} : RemoveMapping(d)
       /\ UNCHANGED <<envVars, scanVars, hubVars, wsVars, apiVars, proxyVars, saveVars, readVars, resVars, cliVars>>

SpecRoute == InitRoute /\ [][NextRoute]_vars

(***************************************************************************)
(* SpecCase: SpecRoute for Host headers spelled with and without capital   *)
(* letters, under the suffix localhost                                     *)
(***************************************************************************)
CaseHosts ==
    { <<"api", ".", "localhost">>, <<"Api", ".", "localhost">>,
      <<"api", ".", "Localhost">>, <<"Api", ".", "localhost", ":", "8080">>,
      <<"portgate", ".", "localhost">>, <<"Portgate", ".", "localhost">>,
      <<"localhost">>, <<"Localhost">>, <<"myapp", ".", "localhost">> }

CaseRequests == [Host : CaseHosts, Connection : ConnectionValues, Upgrade : UpgradeValues]

InitCase ==
    /\ \E ms \in RouteConfigs : cfg = [EmptyConfig EXCEPT !.Mappings = ms]
    /\ disk = cfg
    /\ saveFails = 0
    /\ expected = [d \in Domains |-> NoMapping]
    /\ lastOp = NoOp
    /\ EnvOff
    /\ ScanAt("off")
    /\ HubInit
    /\ WsInit
    /\ ApiInit
    /\ pxSuffix = <<"localhost">>
    /\ ProxyIdle
    /\ SaveInit /\ ReadInit /\ ResInit /\ CliInit

NextCase ==
    \/ \E r \in CaseRequests : ProxyServe(r)
    \/ ProxyToDashboard
    \/ BufferedProxy
    \/ /\ \E d \in {"portgate", "api"} : AddMapping(DomainMapping(d, 3000, FALSE))
       /\ UNCHANGED <<envVars, scanVars, hubVars, wsVars, apiVars, proxyVars, saveVars, readVars, resVars, cliVars>>
    \/ /\ \E d \in {"portgate", "api"} : RemoveMapping(d)
       /\ UNCHANGED <<envVars, scanVars, hubVars, wsVars, apiVars, proxyVars, saveVars, readVars, resVars, cliVars>>

SpecCase == InitCase /\ [][NextCase]_vars

(***************************************************************************)
(* SpecTunnel: one request for a mapped subdomain, a WebSocket upgrade or  *)
(* not, served to its end; the client and the backend send bytes and       *)
(* close when they like                                                    *)
(***************************************************************************)
TunnelRequests ==
    { [Host |-> <<"api", ".", "localhost", ":", "8080">>,
       Connection |-> <<"Upgrade">>, Upgrade |-> <<"websocket">>],
      [Host |-> <<"api", ".", "localhost", ":", "8080">>,
       Connection |-> <<"keep-alive">>, Upgrade |-> <<>>] }

InitTunnel ==
    /\ cfg = [EmptyConfig EXCEPT
                 !.Mappings = <<SystemMapping, DomainMapping("api", 3000, FALSE)>>]
    /\ disk = cfg
    /\ saveFails = 0
    /\ expected = [d \in Domains |-> NoMapping]
    /\ lastOp = NoOp
    /\ EnvOff
    /\ ScanAt("off")
    /\ HubInit
    /\ WsInit
    /\ ApiInit /\ ProxyInit /\ SaveInit /\ ReadInit /\ ResInit /\ CliInit

NextTunnel ==
    \/ \E r \in TunnelRequests : ProxyServe(r)
    \/ BufferedProxy
    \/ WsDial
    \/ WsHijack
    \/ WsWriteRequest
    \/ WsFlush
    \/ ClientSend
    \/ ClientClose
    \/ ClientStall
    \/ BackendSend
    \/ BackendClose
    \/ BackendStall
    \/ UpRead
    \/ UpWrite
    \/ UpClose
    \/ DownRead
    \/ DownWrite
    \/ DownClose

SpecTunnel == InitTunnel /\ [][NextTunnel]_vars

(***************************************************************************)
(* Claims about the Hub and its subscribers                                *)
(***************************************************************************)
\* the Hub loop takes the broadcast at the head of Hub.broadcast
HubTakes == broadcast # <<>> /\ broadcast' = Tail(broadcast)

\* how many broadcasts the Hub loop has taken so far
Taken == nextSeq - Len(broadcast)

\* the ranks of the broadcasts in a sequence of messages
BcastSeqs(q) == {q[i].seq : i \in {j \in 1..Len(q) : q[j].kind = "bcast"}}

\* C1: when the Hub loop processes a broadcast, every registered subscriber
\* whose queue is full (SendCap messages) has its queue closed and is removed
\* from the subscriber set in that step, every registered subscriber whose
\* queue has room gets the message at the back of its queue and stays
\* registered, nobody else's queue changes; and the Hub loop can take a
\* queued broadcast whatever the state of the subscribers' queues.
C1_FullQueueDropped ==
    /\ [][HubTakes =>
            \A c \in Clients :
                IF c \notin clients
                THEN send'[c] = send[c] /\ c \notin clients' /\ closed'[c] = closed[c]
                ELSE IF Len(send[c]) >= SendCap
                THEN send'[c] = send[c] /\ c \notin clients' /\ closed'[c]
                ELSE /\ send'[c] = Append(send[c], Head(broadcast))
                     /\ c \in clients'
                     /\ ~closed'[c]]_vars
    /\ [](broadcast # <<>> => ENABLED HubBroadcast)

\* one subscriber was dropped for a full queue by a broadcast that the other,
\* still registered, has in its queue
C1_Witness ==
    /\ closed["c1"] /\ "c1" \notin clients /\ rdPc["c1"] = "reading"
    /\ Len(send["c1"]) = SendCap
    /\ "c2" \in clients /\ ~closed["c2"]
    /\ \E n \in BcastSeqs(send["c2"]) :
          \A k \in BcastSeqs(send["c1"]) \cup BcastSeqs(recv["c1"]) : k < n

C3_InitialStateFirst == \A c \in Clients : firstEnq[c] # "bcast"

\* C4: the broadcasts a subscriber's write pump sends appear in the order in
\* which they were put on Hub.broadcast, each at most once.
C4_IssueOrder ==
    \A c \in Clients :
        \A i, j \in 1..Len(recv[c]) :
            (i < j /\ recv[c][i].kind = "bcast" /\ recv[c][j].kind = "bcast")
                => recv[c][i].seq < recv[c][j].seq

\* one subscriber has been sent three broadcasts while the other lags
C4_Witness ==
    /\ Cardinality(BcastSeqs(recv["c2"])) >= 3
    /\ BcastSeqs(recv["c1"]) = {}
    /\ send["c1"] # <<>>

\* every message held anywhere: being built, queued, or already sent
AllMessages ==
    {buMsg[c] : c \in {x \in Callers : buMsg[x].kind # "none"}}
        \cup {wsMsg[c] : c \in {x \in Clients : wsMsg[x].kind # "none"}}
        \cup SeqToSet(broadcast)
        \cup UNION {SeqToSet(send[c]) : c \in Clients}
        \cup UNION {SeqToSet(recv[c]) : c \in Clients}

\* C5: the list GetPorts returns, and the list in every update message, is
\* empty or is exactly the complete list of one SetPorts call; SetPorts is
\* called once per scan cycle, with the list that cycle's scan() returned.
C5_AtomicSnapshot ==
    /\ IF setLog = <<>> THEN GetPorts = <<>> ELSE GetPorts = setLog[Len(setLog)]
    /\ \A m \in AllMessages :
          m.ports = <<>> \/ \E k \in 1..Len(setLog) : m.ports = setLog[k]
    /\ Len(results) = Len(setLog) + (IF scPc = "deliver" THEN 1 ELSE 0)
    /\ \A k \in 1..Len(setLog) : setLog[k] = results[k]
    /\ \A k \in 1..Len(results) :
          \A i \in 1..Len(results[k]) : results[k][i].LastSeen = k

\* a reader holds the first cycle's list while the Hub holds the second's
\* and the scanner is delivering a broadcast
C5_Witness ==
    /\ Len(setLog) = 2
    /\ ports = setLog[2] /\ ports # <<>>
    /\ wsMsg["c1"].kind = "init" /\ wsMsg["c1"].ports = setLog[1]
    /\ setLog[1] # setLog[2]

(***************************************************************************)
(* Claims about the Scanner                                                *)
(***************************************************************************)
\* how many entries of a snapshot carry port p
CountPort(ps, p) == Cardinality({i \in 1..Len(ps) : ps[i].Port = p})

\* p lies in one of the ranges
Covered(ranges, p) == \E i \in 1..Len(ranges) : ranges[i].Start <= p /\ p <= ranges[i].End

\* the ports of a manual-port list
ManualSet(mps) == {mps[i].Port : i \in 1..Len(mps)}

\* the range sweep of the current cycle found p open
SweepFound(p) == Covered(probe.ranges, p) /\ p \in probe.sweep

HasEntry(ps, p, src) == \E i \in 1..Len(ps) : ps[i].Port = p /\ ps[i].Source = src

\* C6: the snapshot a scan cycle returns holds at most one entry per port,
\* and a port inside a configured range with a listener throughout the cycle
\* has exactly one entry, with source "scan".
C6_OneEntryPerPort ==
    scPc = "deliver" =>
        \A p \in Ports :
            /\ CountPort(scPorts, p) <= 1
            /\ (Covered(probe.ranges, p) /\ p \in steady)
                  => (CountPort(scPorts, p) = 1 /\ HasEntry(scPorts, p, "scan"))

\* C7: a port inside a configured range and in the manual list that the range
\* sweep found open has a "scan" entry and no "manual" entry; a "manual"
\* entry exists only for a manual port the range sweep did not find open.
C7_ScanWinsOverManual ==
    scPc = "deliver" =>
        /\ \A p \in ManualSet(probe.mps) :
              SweepFound(p) =>
                  (HasEntry(scPorts, p, "scan") /\ ~HasEntry(scPorts, p, "manual"))
        /\ \A i \in 1..Len(scPorts) :
              scPorts[i].Source = "manual" =>
                  (scPorts[i].Port \in ManualSet(probe.mps) /\ ~SweepFound(scPorts[i].Port))

\* a manual port inside a range was found open by the sweep, another manual
\* port was not
C7_Witness ==
    /\ scPc = "deliver"
    /\ \E p, q \in ManualSet(probe.mps) :
          /\ SweepFound(p) /\ HasEntry(scPorts, p, "scan")
          /\ ~SweepFound(q) /\ HasEntry(scPorts, q, "manual")

\* C8: every manual port the range sweep did not find open has a "manual"
\* entry whose healthy flag is the result of its own connect attempt; every
\* "scan" entry is a port of a configured range that accepted the sweep's
\* connection, with healthy = true; a port that is not manually registered
\* and is closed or outside every range has no entry.
C8_VisibilityRule ==
    scPc = "deliver" =>
        /\ \A p \in ManualSet(probe.mps) :
              ~SweepFound(p) =>
                  \E i \in 1..Len(scPorts) :
                      /\ scPorts[i].Port = p
                      /\ scPorts[i].Source = "manual"
                      /\ scPorts[i].Healthy = (p \in probe.manual)
        /\ \A i \in 1..Len(scPorts) :
              scPorts[i].Source = "scan" =>
                  (SweepFound(scPorts[i].Port) /\ scPorts[i].Healthy)
        /\ \A p \in Ports \ ManualSet(probe.mps) :
              ~SweepFound(p) => CountPort(scPorts, p) = 0

\* a closed manual port is listed unhealthy, a range port is listed from the
\* sweep, and a closed port that is not registered is absent
C8_Witness ==
    /\ scPc = "deliver"
    /\ \E i, j \in 1..Len(scPorts) :
          /\ scPorts[i].Source = "manual" /\ ~scPorts[i].Healthy
          /\ scPorts[j].Source = "scan" /\ scPorts[j].Healthy
    /\ \E p \in Ports \ ManualSet(probe.mps) :
          /\ Covered(probe.ranges, p)
          /\ p \notin probe.sweep
          /\ CountPort(scPorts, p) = 0

(***************************************************************************)
(* Claims about the ConfigStore                                            *)
(***************************************************************************)
EntriesOf(ms, d) == SelectSeq(ms, LAMBDA e : e.Domain = d)

\* C9: after any sequence of AddMapping and RemoveMapping calls, Mappings()
\* holds at most one entry per domain, namely the one of the most recent
\* AddMapping of that domain not followed by its RemoveMapping (so entries of
\* other domains are untouched), and LookupPort returns that entry's port, or
\* 0 when the domain has no entry.
C9_LastWriteWins ==
    \A d \in Domains :
        IF expected[d] = NoMapping
        THEN EntriesOf(Mappings, d) = <<>> /\ LookupPort(d) = 0
        ELSE EntriesOf(Mappings, d) = <<expected[d]>>
             /\ LookupPort(d) = expected[d].TargetPort

\* AddMapping(myapp,3000) then AddMapping(myapp,4000) has run, beside another domain
C9_Witness ==
    /\ lastOp = Op("AddMapping", "myapp", 4000, 3000, FALSE, TRUE)
    /\ LookupPort("api") # 0
    /\ LookupPort("myapp") = 4000

NoDupRanges(rs) == \A i, j \in 1..Len(rs) : rs[i] = rs[j] => i = j

\* C10: AddScanRange of a pair that is already stored leaves the stored ranges
\* (and the ranges ScanRanges() returns) unchanged, and after any sequence of
\* AddScanRange / RemoveScanRange calls no (start,end) pair is stored twice.
C10_AddScanRangeIdempotent ==
    [][ /\ NoDupRanges(cfg'.ScanRanges)
        /\ \A sr \in ValidRanges :
              (AddScanRange(sr) /\ sr \in SeqToSet(ScanRanges))
                  => (ScanRanges' = ScanRanges
                      /\ (cfg.ScanRanges # <<>> => cfg'.ScanRanges = cfg.ScanRanges)) ]_vars

\* a pair that is stored (and is not a default) has been added a second time
C10_Witness ==
    /\ lastOp = Op("AddScanRange", "", 1, 2, FALSE, TRUE)
    /\ Len(SelectSeq(cfg.ScanRanges, LAMBDA e : e = ScanRange(1, 2))) = 1

(***************************************************************************)
(* Claims about the dashboard API                                          *)
(***************************************************************************)
\* C11: whatever /api/mappings requests are served, the system mapping of
\* domain "portgate" stays in the mapping list, in memory and on disk, as it
\* was stored; a DELETE for domain "portgate" is answered 403 and changes
\* neither the configuration nor the file.
C11_SystemMappingKept ==
    /\ [](/\ EntriesOf(Mappings, "portgate") = <<SystemMapping>>
          /\ EntriesOf(disk.Mappings, "portgate") = <<SystemMapping>>)
    /\ [][DeleteMapping(<<"portgate">>)
            => (apiReply' = 403 /\ cfg' = cfg /\ disk' = disk)]_vars

\* a DELETE of "portgate" has been refused after a POST stored a user mapping
\* beside the system mapping
C11_Witness ==
    /\ apiReq = [method |-> "DELETE", domain |-> <<"portgate">>, port |-> 0]
    /\ apiReply = 403
    /\ \E i \in 1..Len(Mappings) : Mappings[i].Domain = "portgate.test"

(***************************************************************************)
(* Claims about the proxy                                                  *)
(***************************************************************************)
\* a Host value without its ":port" ending, when it has one
WithoutPort(H) ==
    IF Len(H) > 2 /\ H[Len(H) - 1] = ":" THEN SubSeq(H, 1, Len(H) - 2) ELSE H

\* the request went, or is going, to the dashboard backend
ToDashboard == pxPc = "dashboard" \/ (pxPc = "done" /\ pxFwd.addr = "dashboard")

\* C12: for a served request with Host H (its optional :port stripped) and
\* suffix S: if H = X.S with X non-empty the subdomain is X; if H = S or H
\* does not end in .S the subdomain is empty and the request goes to the
\* dashboard; and the request is routed as the same request without the
\* port in its Host would be.
C12_HostRouting ==
    /\ pxPc # "idle" =>
          LET H == WithoutPort(pxReq.Host)
              S == pxSuffix
          IN  /\ \A X \in Prefixes(H) :
                    (X # <<>> /\ H = X \o <<".">> \o S) => pxSub = Join(X)
              /\ (H = S \/ ~HasSuffix(H, <<".">> \o S)) => (pxSub = "" /\ ToDashboard)
    /\ pxPc # "idle" =>
          Route(pxReq, pxSuffix, Mappings)
              = Route([pxReq EXCEPT !.Host = WithoutPort(pxReq.Host)], pxSuffix, Mappings)

\* api.localhost:8080 has been served with suffix localhost: subdomain api
C12_Witness ==
    /\ pxPc # "idle"
    /\ pxReq.Host = <<"api", ".", "localhost", ":", "8080">>
    /\ pxSuffix = <<"localhost">>
    /\ pxSub = "api"

\* the requests for the reserved name under suffix S, with or without a port
PortgateRequests(S) ==
    [Host : { <<"portgate", ".">> \o S, <<"portgate", ".">> \o S \o <<":", "8080">> },
     Connection : ConnectionValues, Upgrade : UpgradeValues]

\* C13: a request whose subdomain is "portgate" goes to the dashboard backend
\* whatever the mappings are: the served one is at, or went to, the dashboard
\* with no port looked up and no redirect, and under the mappings of every
\* reachable state each such request is routed to the dashboard.
C13_ReservedName ==
    /\ (pxPc # "idle" /\ pxSub = "portgate") =>
          /\ ToDashboard
          /\ pxPort = 0
          /\ pxReply # 307
          /\ backendConn = "none"
    /\ \A r \in PortgateRequests(pxSuffix) :
          Route(r, pxSuffix, Mappings).to = "dashboard"

\* portgate.<suffix> was proxied to the dashboard while a user mapping named
\* "portgate" pointed at port 3000
C13_Witness ==
    /\ pxPc = "done"
    /\ pxSub = "portgate"
    /\ pxFwd.addr = "dashboard"
    /\ LookupPort("portgate") = 3000

\* request r names, under suffix S, a subdomain that is not empty, not the
\* reserved name, and not the domain of any mapping in ms
UnknownSubdomain(r, S, ms) ==
    LET H == WithoutPort(r.Host) IN
    \E X \in Prefixes(H) :
       /\ X # <<>>
       /\ H = X \o <<".">> \o S
       /\ Join(X) # "portgate"
       /\ \A i \in 1..Len(ms) : ms[i].Domain # Join(X)

\* C14: a request whose subdomain is non-empty, not reserved and unmapped is
\* answered with 307 at once: no backend connection is opened, nothing is
\* forwarded, the client connection stays with the server, and the configuration
\* (memory and disk), the hub and the scanner are left as they were.
C14_UnknownRedirect ==
    [][(pxPc = "idle" /\ pxPc' # "idle" /\ UnknownSubdomain(pxReq', pxSuffix, Mappings)) =>
          /\ pxReply' = 307
          /\ pxPc' = "done"
          /\ backendConn' = "none"
          /\ clientConn' = "server"
          /\ pxFwd' = NoForward
          /\ <<cfgVars, envVars, scanVars, hubVars, wsVars, apiVars>>'
                = <<cfgVars, envVars, scanVars, hubVars, wsVars, apiVars>>]_vars

\* myapp.localhost was answered with the redirect while another subdomain
\* was mapped
C14_Witness ==
    /\ pxPc = "done"
    /\ pxSub = "myapp"
    /\ pxReply = 307
    /\ LookupPort("api") # 0
    /\ backendConn = "none"

\* the Connection value read as a list of comma-separated tokens holds
\* "upgrade" in some case, and the Upgrade value is "websocket" in some case
TokenUpgrade(r) ==
    /\ \E i \in 1..Len(r.Connection) : Lower(r.Connection[i]) = "upgrade"
    /\ EqualFold(r.Upgrade, <<"websocket">>)

\* C15: a mapped request takes the WebSocket upgrade path exactly when its
\* Connection tokens contain "upgrade" and its Upgrade header is "websocket",
\* case-insensitively; every other mapped request takes the buffered path.
C15_UpgradeByToken ==
    (pxPc # "idle" /\ pxPort # 0) =>
        IF TokenUpgrade(pxReq)
        THEN pxPc = "dial"
        ELSE pxPc = "buffered" \/ (pxPc = "done" /\ pxFwd.addr = Target(pxPort))

\* C16: in a WebSocket tunnel the direction whose copy completes first closes
\* both ends: once a copy task has ended, the client connection and the
\* backend connection are both closed.
C16_FirstCloserClosesBoth ==
    (upPc = "done" \/ downPc = "done") =>
        (clientConn = "closed" /\ backendConn = "closed")

IsPrefix(p, q) == Len(p) <= Len(q) /\ p = SubSeq(q, 1, Len(p))

\* the serialized request as long as r.Write has not put it on backendConn
RequestPending == IF pxPc \in {"dial", "hijack", "write"} THEN <<"request">> ELSE <<>>

\* both connections of the tunnel are open and neither peer has closed
TunnelOpen ==
    /\ clientConn = "hijacked" /\ backendConn = "open"
    /\ cPeer # "closed" /\ bPeer # "closed"

\* C17: what has been written to the backend is always a prefix of the
\* request followed by the client's bytes in the order sent, and what has
\* been written to the client a prefix of the backend's bytes in the order
\* sent; while the tunnel is open every byte not yet written is still on its
\* way, in order (nothing dropped, duplicated, reordered or altered).
C17_BytesInOrder ==
    /\ IsPrefix(toBackend, <<"request">> \o cSent)
    /\ IsPrefix(toClient, bSent)
    /\ TunnelOpen =>
          /\ toBackend \o RequestPending \o cBuf \o upBuf \o cWire = <<"request">> \o cSent
          /\ toClient \o downBuf \o bWire = bSent

\* the tunnel is open and has carried the request and every client byte to
\* the backend, and every backend byte to the client
C17_Witness ==
    /\ pxPc = "relay"
    /\ TunnelOpen
    /\ toBackend = <<"request">> \o cSent
    /\ Len(cSent) = MaxBytes
    /\ toClient = bSent
    /\ Len(bSent) = MaxBytes

\* everything but the request being served
SharedState == <<cfgVars, envVars, scanVars, hubVars, wsVars, apiVars, pxSuffix>>

\* C18: on the buffered path the request goes to 127.0.0.1:<mapped port>
\* with the Host the client sent, and a backend error is answered with 502;
\* on the upgrade path a failed dial is answered with 502 and the client
\* connection is not hijacked; either failure leaves the shared state alone.
C18_BackendFailure ==
    /\ []((pxPc = "done" /\ pxFwd # NoForward /\ pxPort = 3000) =>
             /\ pxFwd.addr = "127.0.0.1:3000"
             /\ pxFwd.Host = pxReq.Host
             /\ (~pxFwd.relayed => pxReply = 502)
             /\ (pxFwd.relayed => pxReply = 0)
             /\ clientConn = "server")
    /\ [][(pxPc = "dial" /\ pxPc' = "done") =>
             /\ pxReply' = 502
             /\ clientConn' = "server"
             /\ backendConn' = "none"]_vars
    /\ [][(pxPc \in {"buffered", "dial"} /\ pxPc' = "done") =>
             SharedState' = SharedState]_vars

\* the request for api.localhost:8080 was forwarded to port 3000 with that
\* Host, the backend failed and the client got 502
C18_Witness ==
    /\ pxPc = "done"
    /\ pxFwd.addr = "127.0.0.1:3000"
    /\ pxFwd.Host = <<"api", ".", "localhost", ":", "8080">>
    /\ ~pxFwd.relayed
    /\ pxReply = 502

\* C19: when the client connection cannot be hijacked the request fails with
\* 500 and the dialled backend connection is closed; whenever the upgrade
\* handler ends on a failure, every connection it opened (backendConn) or
\* took over (clientConn) is closed, and nothing outside the request changes.
C19_HijackFailure ==
    /\ [][(pxPc = "hijack" /\ pxPc' = "done") =>
             /\ pxReply' = 500
             /\ backendConn' = "closed"
             /\ clientConn' = "server"]_vars
    /\ [](pxPc = "done" =>
             /\ backendConn \in {"none", "closed"}
             /\ clientConn \in {"server", "closed"})
    /\ [][(pxPc \in {"dial", "hijack", "write"} /\ pxPc' = "done") =>
             SharedState' = SharedState]_vars

\* the hijack failed after the dial had succeeded
C19_Witness ==
    /\ pxPc = "done"
    /\ pxReply = 500
    /\ backendConn = "closed"
    /\ clientConn = "server"

(***************************************************************************)
(* Claims about Scanner.Run                                                *)
(***************************************************************************)
\* C20: once the cancellation signal has fired, Run starts no further scan
\* cycle: it never leaves the timer wait for another scan.
C20_NoScanAfterCancel ==
    [][~(cancelled /\ scPc = "wait" /\ scPc' = "scan")]_vars

\* C21: after the cancellation signal has fired Run eventually returns: the
\* cycle in progress is finished and delivered and the loop leaves at a wait
\* point; Run has no failure outcome, so its only end is the return.
C21_RunReturns == cancelled ~> (scPc = "done")

\* Run has returned after a cancellation that came while a scan was under
\* way: every scan started was delivered
C21_Witness ==
    /\ scPc = "done"
    /\ cancelled
    /\ cycle >= 2
    /\ Len(results) = cycle
    /\ Len(setLog) = cycle

(***************************************************************************)
(* Claims about persistence                                                *)
(***************************************************************************)
\* the mapping list holds what the request apiReq asked for
Committed(ms, req) ==
    IF req.method = "POST"
    THEN LookupPortIn(ms, NormalizeDomain(req.domain)) = req.port
    ELSE \A i \in 1..Len(ms) : ms[i].Domain # Join(req.domain)

\* C24: when Save fails inside a mapping request, the API answers 500 and
\* starts no broadcast, the in-memory configuration keeps the change and the
\* file keeps what it held; a request whose Save succeeds leaves file and
\* memory equal.
C24_PersistFailure ==
    /\ [][(apiCalls' = apiCalls + 1 /\ saveFails' = saveFails + 1) =>
             /\ apiReply' = 500
             /\ buPc' = buPc /\ buMsg' = buMsg
             /\ broadcast' = broadcast /\ nextSeq' = nextSeq
             /\ Committed(cfg'.Mappings, apiReq')
             /\ disk' = disk]_vars
    /\ [][(apiCalls' = apiCalls + 1 /\ apiReply' \in {201, 204}) =>
             (disk' = cfg' /\ Committed(cfg'.Mappings, apiReq'))]_vars

\* a POST was answered 500: memory has the new mapping, the file has not, and
\* nothing was broadcast
C24_Witness ==
    /\ apiReq.method = "POST"
    /\ apiReply = 500
    /\ Committed(cfg.Mappings, apiReq)
    /\ ~Committed(disk.Mappings, apiReq)
    /\ nextSeq = 0
    /\ buPc["api"] = "idle"

\* the content of the live config file
LiveFile == IF fs.live = 0 THEN <<>> ELSE fs.inodes[fs.live]

\* a file content is one whole serialized configuration
Complete(q) == Len(q) = SaveChunks /\ q = Serialized(q[1].cfg)

\* C22: whatever the interleaving of concurrent mutations, and wherever a
\* crash stops them, the live config file holds one complete serialized
\* configuration, never a truncated, partly written or mixed one.
C22_LiveFileComplete == Complete(LiveFile)

\* C23: when the concurrent mutation calls have all returned success, the
\* configuration on disk equals the in-memory configuration (and so
\* reflects every one of them).
C23_DiskEqualsMemory ==
    (\A s \in Savers : saver[s].pc = "done" /\ saver[s].ret = "nil") =>
        (Complete(LiveFile) /\ LiveFile = Serialized(cfg))

(***************************************************************************)
(* Claims about Hub.GetPorts                                               *)
(***************************************************************************)
\* C25: GetPorts returns a copy: the call leaves the held list as it was and
\* returns its elements, and no change a caller makes to the list it got
\* (overwriting, appending, removing) changes the held list, so a later
\* GetPorts still returns what SetPorts stored.
C25_DefensiveCopy ==
    /\ [][(\/ \E i \in 1..(MaxHeld + 1), v \in Entries : ReaderOverwrite(i, v)
           \/ \E v \in Entries : ReaderAppend(v)
           \/ \E i \in 1..(MaxHeld + 1) : ReaderRemove(i)) => ports' = ports]_vars
    /\ [][ReaderGet => (ports' = ports /\ got'.elems = ports)]_vars
    /\ [](got.held => ~got.shared)

\* the caller has changed the list it got and the Hub still holds two entries
C25_Witness ==
    /\ got.held
    /\ Len(ports) = 2
    /\ got.elems # ports
    /\ Len(got.elems) = 2

(***************************************************************************)
(* Claims about the content of a message                                   *)
(***************************************************************************)
\* C26: every message delivered to a subscriber, the initial one and every
\* broadcast, carries four data fields: ports, mappings, scan_ranges and
\* domain_suffix.
C26_FourFields ==
    \A c \in Clients : \A i \in 1..Len(recv[c]) :
        DataFields(recv[c][i]) = {"ports", "mappings", "scan_ranges", "domain_suffix"}

\* what the code does send: every delivered message carries ports and mappings
\* and nothing else
DeliveredTwoFields ==
    \A c \in Clients : \A i \in 1..Len(recv[c]) :
        DataFields(recv[c][i]) = {"ports", "mappings"}

(***************************************************************************)
(* Claims about what follows a state change                                *)
(***************************************************************************)
\* the step of broadcastUpdate in which caller c hands its message to the Hub
Enqueues(c) == buPc[c] = "enqueue" /\ buPc'[c] = "idle"

\* the message that joined Hub.broadcast in this step
Enqueued == broadcast'[Len(broadcast')]

\* C27: SetPorts replaces the held list before anything is enqueued, and its
\* call enqueues exactly one message, built from the state after the
\* replacement; the Hub loop offers a message it takes to every subscriber
\* registered at that moment (it joins the queue, or the subscriber is
\* dropped); a successful mapping add or remove through the API enqueues
\* exactly one message, which holds the mappings after the change.
C27_ChangeThenBroadcast ==
    /\ [][(scPc = "deliver" /\ scPc' = "broadcast") =>
             /\ ports' = scPorts
             /\ broadcast' = broadcast /\ nextSeq' = nextSeq
             /\ buPc["scanner"] = "idle" /\ buPc'["scanner"] = "ports"]_vars
    /\ [][\A c \in Callers :
             /\ (buPc[c] = "idle" /\ buPc'[c] # "idle") =>
                   /\ buPc'[c] = "ports"
                   /\ IF c = "scanner" THEN scPc = "deliver"
                      ELSE apiCalls' = apiCalls + 1 /\ ~lastOp'.err
             /\ (buPc[c] = "ports" /\ buPc'[c] # "ports") =>
                   buPc'[c] = "mappings" /\ buMsg'[c].ports = ports
             /\ (buPc[c] = "mappings" /\ buPc'[c] # "mappings") =>
                   /\ buPc'[c] = "enqueue"
                   /\ buMsg'[c].ports = buMsg[c].ports
                   /\ buMsg'[c].mappings = cfg.Mappings
             /\ (buPc[c] = "enqueue" /\ buPc'[c] # "enqueue") => buPc'[c] = "idle"]_vars
    /\ [][nextSeq' # nextSeq =>
             /\ nextSeq' = nextSeq + 1
             /\ \E c \in Callers :
                   /\ Enqueues(c)
                   /\ \A d \in Callers \ {c} : buPc'[d] = buPc[d]
                   /\ broadcast' = Append(broadcast, [buMsg[c] EXCEPT !.seq = nextSeq'])]_vars
    /\ [][\A c \in Callers : Enqueues(c) => nextSeq' = nextSeq + 1]_vars
    /\ [][Enqueues("scanner") =>
             /\ Enqueued.ports = setLog[Len(setLog)]
             /\ Enqueued.ports = ports]_vars
    /\ [][Enqueues("api") => Enqueued.mappings = cfg.Mappings]_vars
    /\ [][(apiCalls' = apiCalls + 1 /\ ~lastOp'.err) =>
             buPc'["api"] = "ports" /\ broadcast' = broadcast]_vars
    /\ [][(broadcast # <<>> /\ broadcast' = Tail(broadcast)) =>
             \A c \in Clients :
                IF c \in clients
                THEN \/ send'[c] = Append(send[c], Head(broadcast)) /\ c \in clients'
                     \/ send'[c] = send[c] /\ c \notin clients' /\ closed'[c]
                ELSE send'[c] = send[c]]_vars

\* the second cycle's SetPorts stored a list other than the first's, its message
\* has reached subscriber c1, and a mapping change through the API succeeded
C27_Witness ==
    /\ Len(setLog) >= 2
    /\ setLog[2] # setLog[1]
    /\ \E i \in 1..Len(recv["c1"]) :
          recv["c1"][i].kind = "bcast" /\ recv["c1"][i].ports = setLog[2]
    /\ apiCalls = 1 /\ ~lastOp.err
    /\ buPc["api"] = "idle"

(***************************************************************************)
(* Claims about findExeByPort                                              *)
(***************************************************************************)
\* the rows of the table that are a listener on the port: whole rows in the
\* LISTEN state in the kernel table, TCP rows in the LISTENING state in the
\* output of netstat, with the port as their local port
ListenRows(lk) ==
    { k \in 1..Len(lk.env) :
        /\ lk.env[k].lport = lk.port
        /\ IF lk.os = "unix" THEN lk.env[k].whole /\ lk.env[k].st = 10
           ELSE lk.env[k].proto = "TCP" /\ lk.env[k].state = "LISTENING" }

FirstOf(ks) == CHOOSE k \in ks : \A j \in ks : k <= j

\* C29: the search answers with a row only if the row is in the listening
\* state and its local port is the port asked for, and answers empty (no
\* inode, PID 0) when the table has no such row: a local port 8080 is not
\* taken for 80, the remote-address column does not count, the kernel's four
\* hex digits are read as a big-endian 16-bit number.
C29_ExactListenRow ==
    res.pc = "done" =>
        IF ListenRows(res) = {}
        THEN res.out = (IF res.os = "unix" THEN <<>> ELSE 0)
        ELSE res.out = (IF res.os = "unix" THEN UnixInode(FirstOf(ListenRows(res)) + 1)
                        ELSE NetstatPid(FirstOf(ListenRows(res))))

\* netstat: asked for 80, the first row listens on 8080 and names port 80 in
\* its remote address, the second row listens on 80 and is the answer
C29_Witness ==
    /\ res.pc = "done" /\ res.os = "windows" /\ res.port = 80
    /\ res.env[1].lport = 8080 /\ res.env[1].fport = 80 /\ res.env[1].state = "LISTENING"
    /\ res.env[2].lport = 80 /\ res.env[2].state = "LISTENING"
    /\ res.out = NetstatPid(2)

\* kernel table: asked for 20480 (0x5000), the first row listens on 80
\* (0x0050), the second is an established connection from 20480: no answer
UnixSwappedBytesPassedOver ==
    /\ res.pc = "done" /\ res.os = "unix" /\ res.port = 20480
    /\ res.env[1].lport = 80 /\ res.env[1].st = 10 /\ res.env[1].whole
    /\ res.env[2].lport = 20480 /\ res.env[2].st = 1
    /\ res.out = <<>>

(***************************************************************************)
(* Claims about the executable path of an entry                            *)
(***************************************************************************)
\* C28: in the list a cycle hands to SetPorts, the entry of a port that was
\* open throughout the cycle has as its ExePath what findExeByPort gives for
\* that port (empty when the resolution fails).
C28_ExePathResolved ==
    scPc = "deliver" =>
        \A i \in 1..Len(scPorts) :
            scPorts[i].Port \in steady =>
                scPorts[i].ExePath = findExeByPort(open, scPorts[i].Port)

\* what the code does: no entry of any list has an ExePath
ExePathNeverSet ==
    /\ \A i \in 1..Len(scPorts) : scPorts[i].ExePath = ""
    /\ \A i \in 1..Len(ports) : ports[i].ExePath = ""

(***************************************************************************)
(* Claims about the HTTP probe                                             *)
(***************************************************************************)
\* the title an answer r to GET / yields: the title tag's text, or the Server
\* header when there is no such text, or none ("")
ProbeTitle(r) ==
    IF r.err THEN ""
    ELSE IF r.match /\ r.title # "" THEN r.title
    ELSE r.server

\* the name port p is registered with in the manual list mps, or ""
RECURSIVE NameOf(_, _)
NameOf(mps, p) ==
    IF mps = <<>> THEN ""
    ELSE IF Head(mps).Port = p THEN Head(mps).Name
    ELSE NameOf(Tail(mps), p)

\* entry e of a cycle's list follows the rule, for answers whose body could
\* be read: ServiceName is "tcp" for a failed GET and "http" otherwise; the
\* title of a swept port is what the probe yields; a manual port has what
\* the probe yields, and its name only when the probe yields nothing or the
\* port was not probed.  With nameFirst the name of a manual port comes
\* before the Server header whenever the title pattern did not match.
TitleRule(e, nameFirst) ==
    LET r == http[e.Port]
        name == NameOf(probe.mps, e.Port)
        probed == e.Source = "scan" \/ e.Healthy
    IN  (~probed \/ ~r.readErr) =>
           /\ e.ServiceName = (IF ~probed THEN "" ELSE IF r.err THEN "tcp" ELSE "http")
           /\ e.Title =
                 (IF e.Source = "scan" THEN ProbeTitle(r)
                  ELSE IF ~probed THEN name
                  ELSE IF nameFirst /\ name # "" /\ ~r.match THEN name
                  ELSE IF ProbeTitle(r) # "" THEN ProbeTitle(r)
                  ELSE name)

\* C30: in every list a cycle produces, ServiceName is "http" when GET /
\* succeeded and "tcp" when it failed, the title is the title tag's text and,
\* without one, the Server header, and a manual port's name is its title only
\* when the probe yields neither or the port was not probed.
C30_ProbeResult ==
    scPc = "deliver" => \A i \in 1..Len(scPorts) : TitleRule(scPorts[i], FALSE)

\* what the code does: the name of a manual port is set before the probe, so
\* it also wins over the Server header
NameBeforeServer ==
    scPc = "deliver" => \A i \in 1..Len(scPorts) : TitleRule(scPorts[i], TRUE)

(***************************************************************************)
(* Claims about the command line                                           *)
(***************************************************************************)
\* C31: portgate without a command does what portgate start does: cmdStart
\* runs and the hub, the scanner, the dashboard and the proxy are started.
C31_DefaultsToStart ==
    (cli.pc \in {"done", "serving"} /\ cli.args = <<>>) =>
        /\ cli.ran = "cmdStart"
        /\ {"hub", "scanner", "dashboard", "proxy"} \subseteq cli.started

\* what the code does without a command: the help text, and nothing started
NoCommandPrintsHelp ==
    (cli.pc \in {"done", "serving"} /\ cli.args = <<>>) =>
        (cli.pc = "done" /\ cli.ran = "cmdHelp" /\ cli.started = {} /\ cli.exit = 0)

\* the bounds of a stored scan range and of a stored manual port
RangeInBounds(r) == 1 <= r.Start /\ r.Start <= r.End /\ r.End <= 65535
PortInBounds(m) == 1 <= m.Port /\ m.Port <= 65535

\* the ranges and ports of c that b does not hold are within the bounds
NewlyStoredInBounds(b, c) ==
    /\ \A i \in 1..Len(c.ScanRanges) :
          RangeStored(b.ScanRanges, c.ScanRanges[i]) \/ RangeInBounds(c.ScanRanges[i])
    /\ \A i \in 1..Len(c.ManualPorts) :
          PortStored(b.ManualPorts, c.ManualPorts[i].Port) \/ PortInBounds(c.ManualPorts[i])

\* the request or command of this step asks to store a range or port outside
\* the bounds (or one that cannot be read as numbers)
AsksOutOfBounds ==
    \/ /\ apiCalls' = apiCalls + 1
       /\ apiReq'.method = "POST"
       /\ ~(1 <= apiReq'.start /\ apiReq'.start <= apiReq'.end /\ apiReq'.end <= 65535)
    \/ /\ cli.pc = "ready" /\ cli'.pc # "ready"
       /\ Len(cli.args) = 3 /\ cli.args[1] = "scan-range" /\ cli.args[2] = "add"
       /\ (ScanTwo(cli.args[3]).ok => ~RangeInBounds([Start |-> ScanTwo(cli.args[3]).start,
                                                       End |-> ScanTwo(cli.args[3]).end]))
    \/ /\ cli.pc = "ready" /\ cli'.pc # "ready"
       /\ Len(cli.args) = 2 /\ cli.args[1] = "add-port"
       /\ (ScanInt(cli.args[2]).ok => ~PortInBounds([Port |-> ScanInt(cli.args[2]).n]))

\* C33: a scan range stored through the API or the CLI has 1 <= start <= end
\* <= 65535 and a stored manual port is within 1..65535; a request outside
\* the bounds is answered 400 (the command: exit status 1) and changes
\* neither the configuration in memory nor the file.
C33_BoundsEnforced ==
    /\ [][NewlyStoredInBounds(cfg, cfg') /\ NewlyStoredInBounds(disk, disk')]_vars
    /\ [][AsksOutOfBounds =>
             /\ cfg' = cfg /\ disk' = disk
             /\ IF cli.pc = "ready" THEN cli'.exit = 1 ELSE apiReply' = 400]_vars

\* POST /api/scan-ranges {1, 65536} was refused with 400
C33_Witness ==
    /\ cli.pc = "serving"
    /\ apiReq = [method |-> "POST", path |-> "/api/scan-ranges", start |-> 1, end |-> 65536]
    /\ apiReply = 400

\* the same for the command line: scan-range add 1-65536 ended with status 1
CliRangeRefused ==
    /\ cli.pc = "done" /\ cli.exit = 1
    /\ Len(cli.args) = 3 /\ cli.args[1] = "scan-range" /\ cli.args[2] = "add"
    /\ cli.args[3] = <<"1", "-", "6", "5", "5", "3", "6">>

\* a range at the upper bound was stored by the API
TopRangeStored ==
    /\ apiReq = [method |-> "POST", path |-> "/api/scan-ranges", start |-> 65535, end |-> 65535]
    /\ apiReply = 201
    /\ lastOp.op = "AddScanRange" /\ ~lastOp.dup
    /\ RangeStored(disk.ScanRanges, ScanRange(65535, 65535))

(***************************************************************************)
(* Claims about the manual ports                                           *)
(***************************************************************************)
\* the entries of mps for ports other than p, in their order
OtherPorts(mps, p) == SelectSeq(mps, LAMBDA e : e.Port # p)
PortEntries(mps, p) == SelectSeq(mps, LAMBDA e : e.Port = p)

\* C34: ManualPorts() holds at most one entry for a port; after
\* AddManualPort the port's entry carries the name and the path of that call,
\* after RemoveManualPort(p) there is no entry for p, and either call leaves
\* the entries of the other ports as they were.
C34_OneEntryPerPort ==
    /\ [](\A i, j \in 1..Len(ManualPorts) : ManualPorts[i].Port = ManualPorts[j].Port => i = j)
    /\ [](lastOp.op = "AddManualPort" =>
             PortEntries(ManualPorts, lastOp.n1) = <<ManualPortAt(lastOp.n1, lastOp.dom, lastOp.path)>>)
    /\ [](lastOp.op = "RemoveManualPort" => PortEntries(ManualPorts, lastOp.n1) = <<>>)
    /\ [][lastOp'.op \in {"AddManualPort", "RemoveManualPort"} =>
             OtherPorts(cfg'.ManualPorts, lastOp'.n1) = OtherPorts(cfg.ManualPorts, lastOp'.n1)]_vars

\* port 2, registered without a name, was registered again as "db" with a
\* path; the entry of port 65535 stayed
C34_Witness ==
    /\ lastOp.op = "AddManualPort" /\ lastOp.dup
    /\ ManualPorts = <<ManualPort(65535, "top"), ManualPortAt(2, "db", "/srv/a")>>

\* port 2 was removed from a list of two
ManualPortRemoved ==
    /\ lastOp.op = "RemoveManualPort" /\ lastOp.dup
    /\ ManualPorts = <<ManualPort(65535, "top")>>

(***************************************************************************)
(* Claims about the mappings stored by POST /api/mappings                  *)
(***************************************************************************)
\* the spellings with a capital letter or a blank that the requests carry
UnnormalizedDomains ==
    {"Api", "Api.localhost", "api.localhost", "Portgate", "Portgate.localhost",
     " Portgate.localhost ", "portgate.localhost"}

\* the mappings of the list that a POST stored (not the system mapping)
PostedMappings(ms) == SelectSeq(ms, LAMBDA m : ~m.System)

DomainValid(d) == d # "" /\ d # "portgate" /\ d \notin UnnormalizedDomains

\* the request of this step is outside the bounds of a mapping
PostOutOfBounds ==
    /\ apiCalls' = apiCalls + 1
    /\ apiReq'.method = "POST"
    /\ \/ ~DomainValid(NormalizeDomain(apiReq'.domain))
       \/ apiReq'.port < 1
       \/ apiReq'.port > 65535

\* C35: every mapping stored by POST /api/mappings has a non-empty lowercase
\* domain other than "portgate" and a target port within 1..65535; a request
\* outside these bounds is answered 400 and changes no mapping.
C35_MappingBounds ==
    /\ [](\A i \in 1..Len(PostedMappings(Mappings)) :
             /\ DomainValid(PostedMappings(Mappings)[i].Domain)
             /\ PostedMappings(Mappings)[i].TargetPort \in 1..65535)
    /\ [][PostOutOfBounds => (apiReply' = 400 /\ cfg' = cfg /\ disk' = disk)]_vars

\* what the code holds to: the domain rule, and a port other than 0
C35_DomainAndNonZero ==
    /\ [](\A i \in 1..Len(PostedMappings(Mappings)) :
             /\ DomainValid(PostedMappings(Mappings)[i].Domain)
             /\ PostedMappings(Mappings)[i].TargetPort # 0)
    /\ [][(apiCalls' = apiCalls + 1 /\ apiReq'.method = "POST"
             /\ (~DomainValid(NormalizeDomain(apiReq'.domain)) \/ apiReq'.port = 0))
          => (apiReply' = 400 /\ cfg' = cfg /\ disk' = disk)]_vars

\* a mapping to port 65536 is stored and answered 201
PortAboveRangeStored ==
    /\ apiReply = 201
    /\ \E i \in 1..Len(disk.Mappings) : disk.Mappings[i].TargetPort = 65536

(***************************************************************************)
(* Claims about removing scan ranges                                       *)
(***************************************************************************)
\* the range of the latest AddScanRange / RemoveScanRange call
LastRange == ScanRange(lastOp.n1, lastOp.n2)

\* C38: after RemoveScanRange(r) returned nil ScanRanges() does not hold r,
\* whatever was stored before; after AddScanRange(r) returned nil it holds r.
C38_RemovedRangeGone ==
    /\ (lastOp.op = "RemoveScanRange" /\ ~lastOp.err) => ~RangeStored(ScanRanges, LastRange)
    /\ (lastOp.op = "AddScanRange" /\ ~lastOp.err) => RangeStored(ScanRanges, LastRange)

\* what the code holds to: the removed range is gone from the stored list,
\* and from ScanRanges() unless the stored list became empty and the range
\* is one of the defaults
RemovedUnlessDefaultsReturn ==
    /\ (lastOp.op = "RemoveScanRange" /\ ~lastOp.err) =>
          /\ ~RangeStored(cfg.ScanRanges, LastRange)
          /\ RangeStored(ScanRanges, LastRange) =>
                (cfg.ScanRanges = <<>> /\ RangeStored(DefaultScanRanges, LastRange))
    /\ (lastOp.op = "AddScanRange" /\ ~lastOp.err) => RangeStored(ScanRanges, LastRange)

\* the last stored range was removed and ScanRanges() still returns it
LastRangeRemovedStillScanned ==
    /\ lastOp.op = "RemoveScanRange" /\ ~lastOp.err
    /\ cfg.ScanRanges = <<>> /\ disk.ScanRanges = <<>>
    /\ RangeStored(ScanRanges, LastRange)

(***************************************************************************)
(* Claims about the subscribers' queues                                    *)
(***************************************************************************)
\* C32: no goroutine sends on a subscriber's queue after the queue was
\* closed, however the initial-state send of the /ws handler, the broadcast
\* of the Hub loop, the unregistration and the full-queue drop interleave.
C32_NoSendOnClosedQueue == ~panicked

\* the second half of the sentence: the subscriber set changes only in a
\* step of the Hub loop (a register or unregister it receives, a broadcast
\* it takes)
SetTouchedByHubLoopOnly ==
    [][clients' # clients =>
          \/ \E c \in Clients : wsPc[c] = "register" /\ wsPc'[c] = "build"
          \/ \E c \in Clients : rdPc[c] = "unregister" /\ rdPc'[c] = "done"
          \/ broadcast # <<>> /\ broadcast' = Tail(broadcast)]_vars

\* the Hub loop itself never sends to a closed queue: every registered
\* subscriber's queue is open
RegisteredQueuesOpen == \A c \in clients : ~closed[c]

\* the handler met a queue closed after the read pump's unregistration
SendAfterUnregister ==
    /\ panicked
    /\ wsPc["c1"] = "done" /\ rdPc["c1"] = "done" /\ closed["c1"]
    /\ firstEnq["c1"] = "none"

\* the Hub has received the subscriber's registration
RegistrationProcessed(c) == wsPc[c] \in {"build", "send", "done"}

\* C37: a queue is closed at most once: an unregister request for a
\* subscriber whose queue is closed already (dropped for a full queue, or
\* unregistered) changes nothing, a closed queue stays closed, and a
\* subscriber is in the subscriber set exactly while its queue is open and
\* its registration has been processed.
C37_ClosedOnce ==
    /\ [](\A c \in Clients : c \in clients <=> (~closed[c] /\ RegistrationProcessed(c)))
    /\ [][\A c \in Clients :
             (rdPc[c] = "unregister" /\ rdPc'[c] = "done" /\ closed[c]) =>
                 /\ clients' = clients /\ closed' = closed
                 /\ send' = send /\ panicked' = panicked]_vars
    /\ [][\A c \in Clients : closed[c] => closed'[c]]_vars

\* the subscriber was dropped with a full queue, and the unregister request
\* of its read pump has been received since
C37_Witness ==
    /\ closed["c1"] /\ "c1" \notin clients
    /\ rdPc["c1"] = "done"
    /\ Len(send["c1"]) = SendCap
    /\ ~panicked

\* the request is still on its way when the queue is closed by the drop
DroppedBeforeUnregister ==
    /\ closed["c1"] /\ rdPc["c1"] = "unregister" /\ Len(send["c1"]) = SendCap

(***************************************************************************)
(* Claims about what the subscribers end up with                           *)
(***************************************************************************)
\* nothing is under way: no broadcastUpdate call is between its reads and
\* its send, no /ws handler is before its initial-state send, Hub.broadcast
\* and every registered subscriber's queue are empty
Settled ==
    /\ \A c \in Callers : buPc[c] = "idle"
    /\ broadcast = <<>>
    /\ \A c \in clients : send[c] = <<>> /\ wsPc[c] = "done" /\ wrPc[c] = "running"

\* the message a subscriber received last
LastReceived(c) == recv[c][Len(recv[c])]

\* C36: once the changes have stopped and every queued message is
\* delivered, the last message of every registered subscriber carries the
\* Hub's current ports and the store's current mappings.
C36_SubscribersConverge ==
    Settled =>
        \A c \in clients :
            /\ recv[c] # <<>>
            /\ LastReceived(c).ports = ports
            /\ LastReceived(c).mappings = Mappings

\* with every Save succeeding: the subscriber's last message is its
\* initial state, built before a mapping was added and sent after that
\* change's broadcast
StaleInitialStateLast ==
    /\ Settled /\ saveFails = 0 /\ "c1" \in clients /\ recv["c1"] # <<>>
    /\ LastReceived("c1").kind = "init"
    /\ LastReceived("c1").mappings # Mappings

\* with every Save succeeding: the subscriber's last message is a broadcast
\* built before the latest change and put on Hub.broadcast after the
\* broadcast of that change
StaleBroadcastLast ==
    /\ Settled /\ saveFails = 0 /\ "c1" \in clients /\ recv["c1"] # <<>>
    /\ LastReceived("c1").kind = "bcast"
    /\ LastReceived("c1").mappings # Mappings

(***************************************************************************)
(* Claims about progress of the Hub                                        *)
(***************************************************************************)
\* C39: while Hub.Run runs nothing waits for ever on the Hub: a register
\* request, an unregister request and a message for Hub.broadcast are each
\* accepted in the end, a message on Hub.broadcast is taken, and a SetPorts
\* call returns, whatever the subscriber does.
C39_HubNeverStuck ==
    /\ \A c \in HubClients : (wsPc[c] = "register") ~> (wsPc[c] # "register")
    /\ \A c \in HubClients : (rdPc[c] = "unregister") ~> (rdPc[c] = "done")
    /\ \A c \in Callers : (buPc[c] = "enqueue") ~> (buPc[c] = "idle")
    /\ (broadcast # <<>>) ~> (broadcast = <<>>)
    /\ (scPc = "broadcast") ~> (scPc = "wait")

\* the subscriber never read: its queue filled, it was dropped, its read
\* pump's request was received, and the scanner's SetPorts call has
\* returned with Hub.broadcast empty
C39_Witness ==
    /\ closed["c1"] /\ Len(send["c1"]) = SendCap /\ recv["c1"] = <<>>
    /\ rdPc["c1"] = "done"
    /\ scPc = "wait"
    /\ broadcast = <<>>

(***************************************************************************)
(* Claims about the case of the Host header                                *)
(***************************************************************************)
\* the step in which ProxyHandler decides where the request goes
Routed == pxPc = "idle" /\ pxPc' # "idle"

\* where the same request goes when its Host is written in lower case
LowerCased(r) == Route([r EXCEPT !.Host = ToLower(r.Host)], DomainSuffix, Mappings)

\* C40: where a request goes does not depend on the case of its Host
\* header: it goes where the request with the Host in lower case goes.
C40_HostCaseIgnored ==
    [][Routed =>
          /\ pxPort' = LowerCased(pxReq').port
          /\ (pxPc' = "dashboard") = (LowerCased(pxReq').to = "dashboard")
          /\ (pxReply' = 307) = (LowerCased(pxReq').to = "redirect")]_vars

\* what the code does with a Host that has a capital letter: the mapping
\* lookup compares it byte by byte with the stored lower-case domains, so
\* the request never reaches a mapped port
CapitalHostNeverMapped ==
    [][(Routed /\ pxReq'.Host # ToLower(pxReq'.Host)) => pxPort' = 0]_vars

\* Api.localhost was redirected while api is mapped
CapitalHostRedirected ==
    /\ pxPc = "done" /\ pxReply = 307
    /\ pxReq.Host = <<"Api", ".", "localhost">>
    /\ LookupPort("api") # 0

====
